---- MODULE Spec2Model ----
(***************************************************************************)
(* Status polling, caching and diffing engine of the Activision status cog *)
(* (src/codstatus/codstatus.py, src/codstatus/activision_api.py,           *)
(* src/codstatus/regex_utils.py).                                          *)
(*                                                                         *)
(* Two tasks run on one event loop: the scheduler (initialize, the         *)
(* before_loop hook, then ticks of status_check_loop) and an operator      *)
(* command.  A task gives up control only at an await, so every action     *)
(* below is the code between two awaits of one task.                       *)
(***************************************************************************)
EXTENDS FiniteSets, Integers, Sequences, TLC

VARIABLES
    now,                \* datetime.utcnow(), in seconds
    upstream,           \* the payload the status endpoint serves at this moment
    cacheFile,          \* content of status_cache.json
    cache_age,          \* ActivisionStatus.cache_age, what fetch_status compares with
    loop_seconds,       \* the interval status_check_loop sleeps between ticks
    check_interval,     \* config: check_interval
    config_cache_age,   \* config: cache_age
    update_bot_status,  \* config: update_bot_status
    channels,           \* config: guild -> ordered dict channel -> {"filters": [...]}
    lastKnown,          \* ActivisionStatusCog._last_known_statuses
    presence,           \* the bot's presence indicator
    pc,                 \* position of the scheduler task
    tick,               \* locals of the tick in progress
    cpc,                \* position of the operator command task
    sent,               \* messages delivered by the tick in progress
    lastTick,           \* how the latest tick went: "none" before the first one,
                        \* "running", "absent", "quiet", "notified" or "raised"
    seed,               \* whether a scheduler fetch has returned a snapshot yet
    call,               \* the latest direct call of a filter-engine function
    reply,              \* the answer to the latest configuration command
    delivered           \* history: what each destination has been sent so far

vars == <<now, upstream, cacheFile, cache_age, loop_seconds, check_interval,
          config_cache_age, update_bot_status, channels, lastKnown, presence,
          pc, tick, cpc, sent, lastTick, seed, call, reply, delivered>>

----------------------------------------------------------------------------
\* Program constants and model bounds

DefaultCacheAge == 300

DefaultInterval == 300

MinSeconds == 60

MaxTime == 300

TimeSteps == {300}

InitTimestamps == {-300, 0}

----------------------------------------------------------------------------
\* Payloads.  A game title is a sequence of characters, so that the filter
\* engine can search it; a missing or empty field is <<>> or "".

TitleA == <<"A">>

TitleB == <<"B">>

Entry(title, platform) == [gameTitle |-> title, platform |-> platform]

Payload(statuses) == [kind |-> "dict", serverStatuses |-> statuses]

NoData == [kind |-> "none"]

\* all online; A on PS4; B on PC with an entry that lacks its title
Payloads ==
    { Payload(<<>>),
      Payload(<<Entry(TitleA, "PS4")>>),
      Payload(<<Entry(TitleB, "PC"), Entry(<<>>, "PC")>>) }

Range(s) == { s[i] : i \in DOMAIN s }

\* Python truthiness of a fetched or cached value
Truthy(data) == data.kind \notin {"none", "falsy"}

\* dict.get(key, default)
Get(d, key, default) == IF key \in DOMAIN d THEN d[key] ELSE default

\* a JSON null where an object is expected
NullEntry == [json |-> "null"]

\* the object {"serverStatuses": null}
NullStatuses == [kind |-> "dict_null_statuses"]

\* data.get("serverStatuses", []): the list, [] without the key; the None
\* of NullStatuses cannot be iterated and is left to StatusesRaise
get_server_statuses(data) ==
    IF ~Truthy(data) THEN <<>> ELSE Get(data, "serverStatuses", <<>>)

\* the set comprehension of get_games_with_issues raises: TypeError on
\* `for status in None`, AttributeError on None.get
StatusesRaise(data) ==
    /\ Truthy(data)
    /\ \/ data = NullStatuses
       \/ \E e \in Range(get_server_statuses(data)) : e = NullEntry

get_games_with_issues(data) ==
    { <<Get(s, "gameTitle", <<>>), Get(s, "platform", "")>> :
        s \in { e \in Range(get_server_statuses(data)) :
                    Get(e, "gameTitle", <<>>) # <<>> /\ Get(e, "platform", "") # "" } }

----------------------------------------------------------------------------
\* Cache Store.  A record the program wrote is [kind |-> "valid", ts, data];
\* the other kinds are what else the file can hold.

CacheRecord(ts, data) == [kind |-> "valid", ts |-> ts, data |-> data]

CacheMissing == [kind |-> "missing"]

\* an empty or cut-off file, left by an interrupted write: not valid JSON
CacheTruncated == [kind |-> "truncated"]

\* not JSON; JSON null, [] or {}; JSON such as [1] or "x"; an object with no
\* "_cache_timestamp"; an object whose "_cache_timestamp" does not parse
CorruptContents ==
    { [kind |-> "not_json"], [kind |-> "falsy"], [kind |-> "non_object"],
      [kind |-> "no_timestamp"], [kind |-> "bad_timestamp"] }

\* _load_cache: None when the file is missing or json.load raises, else the
\* parsed JSON value, whatever its shape
load_cache(file) ==
    IF file.kind \in {"missing", "not_json", "truncated"} THEN NoData ELSE file

\* The outcome of datetime.fromisoformat(cache_time) for the loaded value
TimestampParses(cached) == cached.kind = "valid"

\* CacheCheck with the age test written `<=`: a record exactly cache_age old
\* still counts as fresh
CacheCheck_Inclusive(force_refresh, file, age_limit, t) ==
    IF force_refresh THEN [res |-> "miss", data |-> NoData]
    ELSE IF file.kind = "non_object" THEN [res |-> "raise", data |-> NoData]
    ELSE IF file.kind = "valid" /\ t - file.ts <= age_limit
         THEN [res |-> "hit", data |-> file.data]
         ELSE [res |-> "miss", data |-> NoData]

\* CacheCheck that looks at the cache even when force_refresh is set
CacheCheck_IgnoreForce(force_refresh, file, age_limit, t) ==
    IF file.kind = "non_object" THEN [res |-> "raise", data |-> NoData]
    ELSE IF file.kind = "valid" /\ t - file.ts < age_limit
         THEN [res |-> "hit", data |-> file.data]
         ELSE [res |-> "miss", data |-> NoData]

\* fetch_status, lines 42-59: the cache check of one call.
\*   "raise": cached_data.get(...) on a JSON value that is no object
\*   "hit":   the cached data is returned, no request is made
\*   "miss":  the call goes on to the network request
CacheCheck(force_refresh, file, age_limit, t) ==
    IF force_refresh THEN [res |-> "miss", data |-> NoData]
    ELSE LET cached_data == load_cache(file) IN
         IF ~Truthy(cached_data) THEN [res |-> "miss", data |-> NoData]
         ELSE IF cached_data.kind = "non_object" THEN [res |-> "raise", data |-> NoData]
         ELSE IF cached_data.kind = "no_timestamp" THEN [res |-> "miss", data |-> NoData]
         ELSE IF ~TimestampParses(cached_data) THEN [res |-> "miss", data |-> NoData]
         ELSE IF t - cached_data.ts < age_limit
              THEN [res |-> "hit", data |-> cached_data.data]
              ELSE [res |-> "miss", data |-> NoData]

\* _save_cache: open("w") truncates the file, json.dump then writes the record.
\*   "ok":          the record is written
\*   "open_error":  mkdir or open raises; the file is untouched
\*   "write_error": the write raises after the truncation; caught and logged
\*   "crash":       the process stops between the truncation and the last write
SaveOutcomes == {"ok", "open_error", "write_error", "crash"}

save_cache(file, data, t, outcome) ==
    CASE outcome = "ok" -> CacheRecord(t, data)
      [] outcome = "open_error" -> file
      [] OTHER -> CacheTruncated

----------------------------------------------------------------------------
\* Filter Engine.  Patterns and titles are sequences of characters.  The
\* model's alphabet is letters, "/", "." and "[": it holds no "]", so a "["
\* never closes and re.compile raises re.error on it.

FlagChars == {"i", "g", "m", "s", "u", "v", "x"}

LowerMap == [A |-> "a", B |-> "b", F |-> "f", I |-> "i", G |-> "g", M |-> "m",
             S |-> "s", U |-> "u", V |-> "v", X |-> "x", O |-> "o"]

Lower(c) == IF c \in DOMAIN LowerMap THEN LowerMap[c] ELSE c

HasSlash(p) == \E i \in DOMAIN p : p[i] = "/"

\* pattern.rindex('/'), counted from 1
LastSlash(p) ==
    CHOOSE i \in DOMAIN p : p[i] = "/" /\ \A j \in DOMAIN p : j > i => p[j] # "/"

FlagsOf(cs) ==
    (IF "i" \in cs THEN {"IGNORECASE"} ELSE {})
    \cup (IF "m" \in cs THEN {"MULTILINE"} ELSE {})
    \cup (IF "s" \in cs THEN {"DOTALL"} ELSE {})
    \cup (IF "u" \in cs THEN {"UNICODE"} ELSE {})
    \cup (IF "v" \in cs \/ "x" \in cs THEN {"VERBOSE"} ELSE {})

\* parse_flags without the rindex('/') > 0 test
parse_flags_AnySlash(p) ==
    IF HasSlash(p)
    THEN LET k == LastSlash(p)
             head == SubSeq(p, 1, k - 1)
             tail == SubSeq(p, k + 1, Len(p))
             potential_flags == [i \in DOMAIN tail |-> Lower(tail[i])]
         IN  IF tail # <<>> /\ \A i \in DOMAIN potential_flags :
                                   potential_flags[i] \in FlagChars
             THEN [pattern |-> head, flags |-> FlagsOf(Range(potential_flags))]
             ELSE [pattern |-> p, flags |-> {}]
    ELSE [pattern |-> p, flags |-> {}]

parse_flags(p) ==
    IF HasSlash(p) /\ LastSlash(p) > 1
    THEN LET k == LastSlash(p)
             head == SubSeq(p, 1, k - 1)
             tail == SubSeq(p, k + 1, Len(p))
             potential_flags == [i \in DOMAIN tail |-> Lower(tail[i])]
         IN  IF tail # <<>> /\ \A i \in DOMAIN potential_flags :
                                   potential_flags[i] \in FlagChars
             THEN [pattern |-> head, flags |-> FlagsOf(Range(potential_flags))]
             ELSE [pattern |-> p, flags |-> {}]
    ELSE [pattern |-> p, flags |-> {}]

\* re.compile succeeds
RegexCompiles(clean) == \A i \in DOMAIN clean : clean[i] # "["

validate_pattern(p) == RegexCompiles(parse_flags(p).pattern)

\* matching that folds case whatever the flags
CharMatches_FoldAlways(pc_, c, flags) ==
    \/ pc_ = "."
    \/ Lower(pc_) = Lower(c)

CharMatches(pc_, c, flags) ==
    \/ pc_ = "."
    \/ pc_ = c
    \/ "IGNORECASE" \in flags /\ Lower(pc_) = Lower(c)

\* compiled.search(title): the pattern matches at some position of the title
RegexSearch(clean, flags, title) ==
    \E start \in 0..(Len(title) - Len(clean)) :
        \A i \in DOMAIN clean : CharMatches(clean[i], title[start + i], flags)

PatternSearch(p, title) ==
    LET parsed == parse_flags(p) IN RegexSearch(parsed.pattern, parsed.flags, title)

\* the first invalid rule aborts the evaluation
filter_AbortOnInvalid(issues, filter_patterns) ==
    IF filter_patterns = <<>> THEN issues
    ELSE IF \E i \in DOMAIN filter_patterns : ~validate_pattern(filter_patterns[i])
         THEN {}
         ELSE { issue \in issues :
                  \E i \in DOMAIN filter_patterns :
                      PatternSearch(filter_patterns[i], issue[1]) }

\* no valid rule left: accept everything
filter_OpenOnInvalid(issues, filter_patterns) ==
    LET compiled_patterns == SelectSeq(filter_patterns, validate_pattern) IN
      IF compiled_patterns = <<>> THEN issues
      ELSE { issue \in issues :
               \E i \in DOMAIN compiled_patterns :
                   PatternSearch(compiled_patterns[i], issue[1]) }

\* an empty rule list goes through the matching loop and accepts nothing
filter_EmptyRejects(issues, filter_patterns) ==
    LET compiled_patterns == SelectSeq(filter_patterns, validate_pattern) IN
      { issue \in issues :
          \E i \in DOMAIN compiled_patterns :
              PatternSearch(compiled_patterns[i], issue[1]) }

filter_issues_by_games(issues, filter_patterns) ==
    IF filter_patterns = <<>> THEN issues
    ELSE LET compiled_patterns == SelectSeq(filter_patterns, validate_pattern) IN
         IF compiled_patterns = <<>> THEN {}
         ELSE { issue \in issues :
                  \E i \in DOMAIN compiled_patterns :
                      PatternSearch(compiled_patterns[i], issue[1]) }

----------------------------------------------------------------------------
\* Guilds, destinations and their persisted configuration

GuildOrder == <<"g1", "g2">>

Channel(id, filters) == [id |-> id, filters |-> filters]

PatA == <<"A">>

PatBad == <<"[">>

PatLowerI == <<"a", "/", "i">>

PatBadI == <<"[", "/", "i">>

PatFoo == <<"F", "o", "o">>

PatFooI == <<"f", "o", "o", "/", "i">>

\* what the guild configuration can hold when the cog is loaded
InitialConfigs ==
    { [g1 |-> <<>>, g2 |-> <<>>],
      [g1 |-> <<Channel("c1", <<>>), Channel("c2", <<PatA>>)>>,
       g2 |-> <<Channel("c3", <<PatBad>>), Channel("c4", <<>>)>>] }

\* guild.get_channel(id) and permissions_for(guild.me).send_messages
ChannelStates == {"ok", "missing", "no_permission"}

\* channel.send: delivered, discord.HTTPException, or any other exception
SendOutcomes == {"ok", "http_error", "error"}

\* bot.change_presence
PresenceOutcomes == {"ok", "error"}

\* session.get and response.json(): a 200 with the upstream payload, a 200
\* with an empty JSON value, or one of the failures _fetch_with_session catches
NetFailures == {"non200", "timeout", "client_error", "bad_json"}

NetOutcomes == {"ok", "empty_body"} \cup NetFailures

\* a failed request answered with the data of the cache record, however old
fetch_with_session_StaleFallback(outcome, served) ==
    CASE outcome = "ok" -> served
      [] outcome = "empty_body" -> [kind |-> "falsy"]
      [] OTHER -> IF cacheFile.kind = "valid" THEN cacheFile.data ELSE NoData

fetch_with_session(outcome, served) ==
    CASE outcome = "ok" -> served
      [] outcome = "empty_body" -> [kind |-> "falsy"]
      [] OTHER -> NoData

----------------------------------------------------------------------------
\* State

NoTick == [data |-> NoData, src |-> "none", new |-> {}, resolved |-> {}, g |-> 0,
           queue |-> <<>>, loaded |-> FALSE]

InitialCacheFiles ==
    {CacheMissing} \cup CorruptContents
    \cup { CacheRecord(ts, d) : ts \in InitTimestamps, d \in Payloads }

NoCall == [fn |-> "none"]

NoReply == [kind |-> "none"]

Init ==
    /\ now = 0
    /\ upstream \in Payloads
    /\ cacheFile \in InitialCacheFiles
    /\ cache_age = DefaultCacheAge
    /\ loop_seconds = DefaultInterval
    /\ check_interval = DefaultInterval
    /\ config_cache_age = DefaultCacheAge
    /\ update_bot_status \in BOOLEAN
    /\ channels \in InitialConfigs
    /\ lastKnown = {}
    /\ presence = -1
    /\ pc = "init"
    /\ tick = NoTick
    /\ cpc = "idle"
    /\ sent = {}
    /\ lastTick = "none"
    /\ seed = "none"
    /\ call = NoCall
    /\ reply = NoReply
    /\ delivered = {}

Env == <<now, upstream>>

Config == <<check_interval, config_cache_age, update_bot_status, channels>>

\* the settings as the running loop and the fetcher hold them
InUse == <<cache_age, loop_seconds>>

History == <<lastTick, seed>>

----------------------------------------------------------------------------
\* initialize: load the cache file and start the loop

Initialize ==
    /\ pc = "init"
    /\ LET cached_data == load_cache(cacheFile) IN
         IF Truthy(cached_data) /\ cached_data.kind = "non_object"
         THEN \* cached_data.get raises: setup fails, the loop is never started
              /\ pc' = "load_failed"
              /\ UNCHANGED <<lastKnown, loop_seconds>>
         ELSE /\ pc' = "before"
              /\ lastKnown' =
                    IF /\ Truthy(cached_data)
                       /\ cached_data.kind = "valid"
                       /\ Truthy(cached_data.data)
                    THEN get_games_with_issues(cached_data.data)
                    ELSE lastKnown
              \* status_check_loop.change_interval(seconds=interval)
              /\ loop_seconds' = check_interval
    \* ActivisionAPI(..., cache_age=cache_age)
    /\ cache_age' = config_cache_age
    /\ UNCHANGED <<Env, Config, call, reply, delivered, cacheFile, presence, tick, cpc, sent, History>>

----------------------------------------------------------------------------
\* The end of a fetch_status call that went to the network (lines 61-72)

ProcessStops(data, saveOutcome) == Truthy(data) /\ saveOutcome = "crash"

\* fetch_status that returns the snapshot without writing it to the cache
FileAfterFetch_NoSave(data, saveOutcome) == cacheFile

\* fetch_status, lines 69-70: `if data and self.cache_file: self._save_cache(data)`
FileAfterFetch(data, saveOutcome) ==
    IF Truthy(data) THEN save_cache(cacheFile, data, now, saveOutcome) ELSE cacheFile

\* the save outcome matters only when there is something to save
SaveApplies(data, saveOutcome) == Truthy(data) \/ saveOutcome = "ok"

Stop ==
    /\ pc' = "stopped"
    /\ cpc' = "stopped"
    /\ tick' = NoTick
    /\ sent' = {}
    /\ UNCHANGED <<Env, Config, InUse, call, reply, delivered, lastKnown, presence, History>>

----------------------------------------------------------------------------
\* before_status_check_loop: the seeding fetch

BeforeLoop ==
    /\ pc = "before"
    /\ LET r == CacheCheck(FALSE, cacheFile, cache_age, now) IN
         /\ CASE r.res = "hit" ->
                   /\ pc' = "sleep"
                   /\ IF Truthy(r.data)
                      THEN lastKnown' = get_games_with_issues(r.data) /\ seed' = "done"
                      ELSE UNCHANGED <<lastKnown, seed>>
              [] r.res = "miss" ->
                   /\ pc' = "before_net"
                   /\ UNCHANGED <<lastKnown, seed>>
              [] OTHER -> \* the exception leaves before_loop: the loop task ends
                   /\ pc' = "dead"
                   /\ UNCHANGED <<lastKnown, seed>>
    /\ UNCHANGED <<Env, Config, InUse, call, reply, delivered, cacheFile, presence, tick, cpc, sent, lastTick>>

\* a seeding fetch that keeps what initialize loaded
BeforeLoopResponse_KeepsLoaded(outcome, saveOutcome) ==
    /\ pc = "before_net"
    /\ LET data == fetch_with_session(outcome, upstream) IN
         /\ SaveApplies(data, saveOutcome)
         /\ cacheFile' = FileAfterFetch(data, saveOutcome)
         /\ IF ProcessStops(data, saveOutcome) THEN Stop
            ELSE /\ pc' = "sleep"
                 /\ IF Truthy(data)
                    THEN UNCHANGED lastKnown /\ seed' = "done"
                    ELSE UNCHANGED <<lastKnown, seed>>
                 /\ UNCHANGED <<Env, Config, InUse, call, reply, delivered, presence, tick, cpc, sent, lastTick>>

BeforeLoopResponse(outcome, saveOutcome) ==
    /\ pc = "before_net"
    /\ LET data == fetch_with_session(outcome, upstream) IN
         /\ SaveApplies(data, saveOutcome)
         /\ cacheFile' = FileAfterFetch(data, saveOutcome)
         /\ IF ProcessStops(data, saveOutcome) THEN Stop
            ELSE /\ pc' = "sleep"
                 /\ IF Truthy(data)
                    THEN lastKnown' = get_games_with_issues(data) /\ seed' = "done"
                    ELSE UNCHANGED <<lastKnown, seed>>
                 /\ UNCHANGED <<Env, Config, InUse, call, reply, delivered, presence, tick, cpc, sent, lastTick>>

----------------------------------------------------------------------------
\* status_check_loop: one tick

\* Diff with the two differences taken the wrong way round
Diff_Swapped(previous, current) ==
    [added |-> previous \ current, removed |-> current \ previous]

\* Diff that reports every current issue as new
Diff_NoSubtraction(previous, current) ==
    [added |-> current, removed |-> previous \ current]

\* Diff Engine (lines 176-179)
Diff(previous, current) ==
    [added |-> current \ previous, removed |-> previous \ current]

\* the tick in progress was the first scheduler fetch to return a snapshot
SeedAfterTick == IF seed = "tick" THEN "done" ELSE seed

\* `return`, or the end of the try block, or the except branch (line 187):
\* the tick is over and the loop sleeps until the next one
EndTick(result) ==
    /\ pc' = "sleep"
    /\ tick' = NoTick
    /\ sent' = {}
    /\ lastTick' = result

\* a failed fetch taken for a snapshot without issues
TickFetchFailed_Reset ==
    /\ EndTick("absent")
    /\ seed' = SeedAfterTick
    /\ lastKnown' = {}
    /\ UNCHANGED presence

\* the tick without its try/except: the exception leaves the loop body and
\* ends the loop task
TickException_Dead ==
    /\ pc' = "dead"
    /\ tick' = NoTick
    /\ sent' = {}
    /\ lastTick' = "raised"
    /\ seed' = SeedAfterTick
    /\ UNCHANGED <<lastKnown, presence>>

\* a failed fetch that ends the loop instead of the tick
TickFetchFailed_GivesUp ==
    /\ pc' = "dead"
    /\ tick' = NoTick
    /\ sent' = {}
    /\ lastTick' = "absent"
    /\ seed' = SeedAfterTick
    /\ UNCHANGED <<lastKnown, presence>>

\* `if not data: return` (lines 171-172)
TickFetchFailed ==
    /\ EndTick("absent")
    /\ seed' = SeedAfterTick
    /\ UNCHANGED <<lastKnown, presence>>

\* except Exception (lines 187-188): logged, nothing else
TickException ==
    /\ EndTick("raised")
    /\ seed' = SeedAfterTick
    /\ UNCHANGED <<lastKnown, presence>>

\* the notify step entered whenever the snapshot lists an issue, changed
\* or not
ProcessSnapshot_NotifyWhileIssues(data, src) ==
    LET current_statuses == get_games_with_issues(data)
        delta == Diff(lastKnown, current_statuses)
    IN  IF current_statuses # {} \/ delta.removed # {}
        THEN /\ pc' = "notify"
             /\ tick' = [data |-> data, src |-> src, new |-> delta.added,
                         resolved |-> delta.removed, g |-> 1,
                         queue |-> <<>>, loaded |-> FALSE]
             /\ sent' = {}
             /\ lastTick' = "running"
             /\ seed' = IF seed = "none" THEN "tick" ELSE seed
             /\ UNCHANGED <<lastKnown, presence>>
        ELSE /\ EndTick("quiet")
             /\ lastKnown' = current_statuses
             /\ seed' = "done"
             /\ UNCHANGED presence

\* lines 174-185 up to the first await of the notify step
ProcessSnapshot(data, src) ==
    LET current_statuses == get_games_with_issues(data)
        delta == Diff(lastKnown, current_statuses)
    IN  IF delta.added # {} \/ delta.removed # {}
        THEN /\ pc' = "notify"
             /\ tick' = [data |-> data, src |-> src, new |-> delta.added,
                         resolved |-> delta.removed, g |-> 1,
                         queue |-> <<>>, loaded |-> FALSE]
             /\ sent' = {}
             /\ lastTick' = "running"
             /\ seed' = IF seed = "none" THEN "tick" ELSE seed
             /\ UNCHANGED <<lastKnown, presence>>
        ELSE /\ EndTick("quiet")
             /\ lastKnown' = current_statuses
             /\ seed' = "done"
             /\ UNCHANGED presence

\* a loop that cog_unload does not stop: the next tick starts all the same
TickStart_AfterCancel ==
    /\ pc \in {"sleep", "cancelled"}
    /\ LET r == CacheCheck(FALSE, cacheFile, cache_age, now) IN
         /\ CASE r.res = "hit" ->
                   IF Truthy(r.data) THEN ProcessSnapshot(r.data, "cache") ELSE TickFetchFailed
              [] r.res = "miss" ->
                   /\ pc' = "tick_net"
                   /\ lastTick' = "running"
                   /\ UNCHANGED <<lastKnown, presence, tick, sent, seed>>
              [] OTHER -> TickException
    /\ UNCHANGED <<Env, Config, InUse, call, reply, delivered, cacheFile, cpc>>

TickStart ==
    /\ pc = "sleep"
    /\ LET r == CacheCheck(FALSE, cacheFile, cache_age, now) IN
         /\ CASE r.res = "hit" ->
                   IF Truthy(r.data) THEN ProcessSnapshot(r.data, "cache") ELSE TickFetchFailed
              [] r.res = "miss" ->
                   /\ pc' = "tick_net"
                   /\ lastTick' = "running"
                   /\ UNCHANGED <<lastKnown, presence, tick, sent, seed>>
              [] OTHER -> TickException
    /\ UNCHANGED <<Env, Config, InUse, call, reply, delivered, cacheFile, cpc>>

\* _save_cache without its try/except: a failed write raises out of
\* fetch_status into the tick's except branch
TickResponse_SaveRaises(outcome, saveOutcome) ==
    /\ pc = "tick_net"
    /\ LET data == fetch_with_session(outcome, upstream) IN
         /\ SaveApplies(data, saveOutcome)
         /\ cacheFile' = FileAfterFetch(data, saveOutcome)
         /\ IF ProcessStops(data, saveOutcome) THEN Stop
            ELSE /\ IF ~Truthy(data) THEN TickFetchFailed
                    ELSE IF saveOutcome # "ok" THEN TickException
                    ELSE ProcessSnapshot(data, "net")
                 /\ UNCHANGED <<Env, Config, InUse, call, reply, delivered, cpc>>

TickResponse(outcome, saveOutcome) ==
    /\ pc = "tick_net"
    /\ LET data == fetch_with_session(outcome, upstream) IN
         /\ SaveApplies(data, saveOutcome)
         /\ cacheFile' = FileAfterFetch(data, saveOutcome)
         /\ IF ProcessStops(data, saveOutcome) THEN Stop
            ELSE /\ IF Truthy(data) THEN ProcessSnapshot(data, "net") ELSE TickFetchFailed
                 /\ UNCHANGED <<Env, Config, InUse, call, reply, delivered, cpc>>

\* _post_status_updates: `for guild in self.bot.guilds`, after the guild's
\* channels were handled; past the last guild the notify step is over
NextGuild(g) ==
    IF g < Len(GuildOrder)
    THEN /\ pc' = "notify"
         /\ tick' = [tick EXCEPT !.g = g + 1, !.queue = <<>>, !.loaded = FALSE]
    ELSE /\ pc' = "presence"
         /\ tick' = [tick EXCEPT !.queue = <<>>, !.loaded = FALSE]

\* the list of the first guild read for every guild
NotifyReadGuild_FirstGuild ==
    /\ pc = "notify"
    /\ ~tick.loaded
    /\ LET snapshot == channels[GuildOrder[1]] IN
         IF snapshot = <<>>
         THEN NextGuild(tick.g)
         ELSE /\ pc' = "notify"
              /\ tick' = [tick EXCEPT !.queue = snapshot, !.loaded = TRUE]
    /\ UNCHANGED <<Env, Config, InUse, call, reply, delivered, cacheFile, lastKnown, presence, cpc, sent, History>>

\* channels = await self.config.guild(guild).channels() (lines 252-254)
NotifyReadGuild ==
    /\ pc = "notify"
    /\ ~tick.loaded
    /\ LET snapshot == channels[GuildOrder[tick.g]] IN
         IF snapshot = <<>>
         THEN NextGuild(tick.g)
         ELSE /\ pc' = "notify"
              /\ tick' = [tick EXCEPT !.queue = snapshot, !.loaded = TRUE]
    /\ UNCHANGED <<Env, Config, InUse, call, reply, delivered, cacheFile, lastKnown, presence, cpc, sent, History>>

\* the rest of the guild's channels, or the next guild
NextChannel ==
    IF Tail(tick.queue) # <<>>
    THEN /\ pc' = "notify"
         /\ tick' = [tick EXCEPT !.queue = Tail(tick.queue)]
    ELSE NextGuild(tick.g)

Message(channel, added, removed) ==
    [dest |-> channel.id, filters |-> channel.filters,
     added |-> added, removed |-> removed]

\* every channel of a guild filtered with the rule list read for the
\* guild's first channel
NotifyChannel_GuildFilters(chanState, sendOutcome) ==
    /\ pc = "notify"
    /\ tick.loaded
    /\ LET channel == Head(tick.queue)
           filter_list == channels[GuildOrder[tick.g]][1].filters
           filtered_new == filter_issues_by_games(tick.new, filter_list)
           filtered_resolved == filter_issues_by_games(tick.resolved, filter_list)
       IN  IF chanState = "ok" /\ (filtered_new # {} \/ filtered_resolved # {})
           THEN CASE sendOutcome = "ok" ->
                       /\ sent' = sent \cup {Message(channel, filtered_new, filtered_resolved)}
                       /\ NextChannel
                       /\ UNCHANGED <<lastKnown, presence, History>>
                  [] sendOutcome = "http_error" ->
                       /\ NextChannel
                       /\ UNCHANGED <<lastKnown, presence, History, sent>>
                  [] OTHER -> TickException
           ELSE /\ sendOutcome = "ok"
                /\ NextChannel
                /\ UNCHANGED <<lastKnown, presence, History, sent>>
    /\ UNCHANGED <<Env, Config, InUse, call, reply, delivered, cacheFile, cpc>>

\* the pass without `if filtered_new or filtered_resolved` (line 274): the
\* message is sent whatever the filter left
Deliver_Unconditional(chanState, sendOutcome) ==
    /\ pc = "notify"
    /\ tick.loaded
    /\ LET channel == Head(tick.queue)
           filtered_new == filter_issues_by_games(tick.new, channel.filters)
           filtered_resolved == filter_issues_by_games(tick.resolved, channel.filters)
       IN  IF chanState = "ok"
           THEN CASE sendOutcome = "ok" ->
                       /\ sent' = sent \cup {Message(channel, filtered_new, filtered_resolved)}
                       /\ NextChannel
                       /\ UNCHANGED <<lastKnown, presence, History>>
                  [] sendOutcome = "http_error" ->
                       /\ NextChannel
                       /\ UNCHANGED <<lastKnown, presence, History, sent>>
                  [] OTHER -> TickException
           ELSE /\ sendOutcome = "ok"
                /\ NextChannel
                /\ UNCHANGED <<lastKnown, presence, History, sent>>
    /\ UNCHANGED <<Env, Config, InUse, call, reply, cacheFile, cpc>>

\* one pass of `for channel_key, channel_config in channels.items()`
\* (lines 257-281)
Deliver(chanState, sendOutcome) ==
    /\ pc = "notify"
    /\ tick.loaded
    /\ LET channel == Head(tick.queue)
           filtered_new == filter_issues_by_games(tick.new, channel.filters)
           filtered_resolved == filter_issues_by_games(tick.resolved, channel.filters)
       IN  IF chanState = "ok" /\ (filtered_new # {} \/ filtered_resolved # {})
           THEN CASE sendOutcome = "ok" ->
                       /\ sent' = sent \cup {Message(channel, filtered_new, filtered_resolved)}
                       /\ NextChannel
                       /\ UNCHANGED <<lastKnown, presence, History>>
                  [] sendOutcome = "http_error" ->
                       /\ NextChannel
                       /\ UNCHANGED <<lastKnown, presence, History, sent>>
                  [] OTHER -> TickException
           ELSE /\ sendOutcome = "ok"
                /\ NextChannel
                /\ UNCHANGED <<lastKnown, presence, History, sent>>
    /\ UNCHANGED <<Env, Config, InUse, call, reply, cacheFile, cpc>>

NotifyChannel(chanState, sendOutcome) ==
    /\ Deliver(chanState, sendOutcome)
    /\ UNCHANGED delivered

\* what a message announces: each issue it names, as new or as resolved
Announcements(m) ==
    { [dest |-> m.dest, issue |-> i, as |-> "new", again |-> FALSE] : i \in m.added }
    \cup { [dest |-> m.dest, issue |-> i, as |-> "resolved", again |-> FALSE] : i \in m.removed }

\* the same pass with the history kept: every announcement of the message
\* just sent is entered, marked `again` when the destination had it before
NotifyChannelLogged(chanState, sendOutcome) ==
    /\ Deliver(chanState, sendOutcome)
    /\ LET now_sent == UNION { Announcements(m) : m \in sent' \ sent } IN
         delivered' = delivered \cup now_sent
                        \cup { [a EXCEPT !.again = TRUE] : a \in now_sent \cap delivered }

\* what _update_bot_status shows for a payload (lines 339-352): the number
\* of issues, 0 standing for "All Online"
PresenceFor(data) == Cardinality(get_games_with_issues(data))

\* await self._update_bot_status(data), then line 185
UpdateBotStatus(outcome) ==
    /\ pc = "presence"
    /\ IF update_bot_status
       THEN presence' = IF outcome = "ok" THEN PresenceFor(tick.data) ELSE presence
       ELSE outcome = "ok" /\ UNCHANGED presence
    /\ lastKnown' = get_games_with_issues(tick.data)
    /\ EndTick("notified")
    /\ seed' = SeedAfterTick
    /\ UNCHANGED <<Env, Config, InUse, call, reply, delivered, cacheFile, cpc>>

\* cog_unload: status_check_loop.cancel()
CogUnload ==
    /\ pc \in {"before", "before_net", "sleep", "tick_net", "notify", "presence", "dead"}
    /\ pc' = "cancelled"
    /\ tick' = NoTick
    /\ sent' = {}
    /\ seed' = SeedAfterTick
    /\ UNCHANGED <<Env, Config, InUse, call, reply, delivered, cacheFile, lastKnown, presence, cpc, lastTick>>

----------------------------------------------------------------------------
\* The operator command `check [force]` (also the fetch of `games` and
\* `botstatus`, which call fetch_status() without force)

CogLoaded == pc \notin {"init", "load_failed", "cancelled", "stopped"}

CommandFetch(force) ==
    /\ CogLoaded
    /\ cpc = "idle"
    /\ LET r == CacheCheck(force, cacheFile, cache_age, now) IN
         /\ cpc' = CASE r.res = "hit" -> "replying"
                     [] r.res = "miss" -> IF force THEN "net_forced" ELSE "net"
                     [] OTHER -> "idle"  \* the exception ends the command
    /\ UNCHANGED <<Env, Config, InUse, call, reply, delivered, cacheFile, lastKnown, presence, pc, tick, sent, History>>

\* a manual fetch that takes its snapshot for the last known state
CommandResponse_Seeds(outcome, saveOutcome) ==
    /\ cpc \in {"net", "net_forced"}
    /\ LET data == fetch_with_session(outcome, upstream) IN
         /\ SaveApplies(data, saveOutcome)
         /\ cacheFile' = FileAfterFetch(data, saveOutcome)
         /\ IF ProcessStops(data, saveOutcome) THEN Stop
            ELSE /\ cpc' = "replying"
                 /\ lastKnown' = IF Truthy(data) THEN get_games_with_issues(data) ELSE lastKnown
                 /\ UNCHANGED <<Env, Config, InUse, call, reply, delivered, presence, pc, tick, sent, History>>

CommandResponse(outcome, saveOutcome) ==
    /\ cpc \in {"net", "net_forced"}
    /\ LET data == fetch_with_session(outcome, upstream) IN
         /\ SaveApplies(data, saveOutcome)
         /\ cacheFile' = FileAfterFetch(data, saveOutcome)
         /\ IF ProcessStops(data, saveOutcome) THEN Stop
            ELSE /\ cpc' = "replying"
                 /\ UNCHANGED <<Env, Config, InUse, call, reply, delivered, lastKnown, presence, pc, tick, sent,
                                History>>

\* await reply(ctx, ...): the embed, or the error message when data is None
CommandReply ==
    /\ cpc = "replying"
    /\ cpc' = "idle"
    /\ UNCHANGED <<Env, Config, InUse, call, reply, delivered, cacheFile, lastKnown, presence, pc, tick, sent, History>>

----------------------------------------------------------------------------
\* Environment

Running == pc # "stopped"

AdvanceTime(d) ==
    /\ Running
    /\ now + d <= MaxTime
    /\ now' = now + d
    /\ UNCHANGED <<upstream, Config, InUse, call, reply, delivered, cacheFile, lastKnown, presence, pc, tick, cpc,
                   sent, History>>

UpstreamChange(p) ==
    /\ Running
    /\ p # upstream
    /\ upstream' = p
    /\ UNCHANGED <<now, Config, InUse, call, reply, delivered, cacheFile, lastKnown, presence, pc, tick, cpc,
                   sent, History>>

\* the cache file is damaged or removed behind the program's back
CorruptCache(content) ==
    /\ Running
    /\ content # cacheFile
    /\ cacheFile' = content
    /\ UNCHANGED <<Env, Config, InUse, call, reply, delivered, lastKnown, presence, pc, tick, cpc, sent, History>>

----------------------------------------------------------------------------

Next ==
    \/ Initialize
    \/ BeforeLoop
    \/ \E o \in NetOutcomes, s \in SaveOutcomes : BeforeLoopResponse(o, s)
    \/ TickStart
    \/ \E o \in NetOutcomes, s \in SaveOutcomes : TickResponse(o, s)
    \/ NotifyReadGuild
    \/ \E c \in ChannelStates, s \in SendOutcomes : NotifyChannel(c, s)
    \/ \E o \in PresenceOutcomes : UpdateBotStatus(o)
    \/ CogUnload
    \/ \E f \in BOOLEAN : CommandFetch(f)
    \/ \E o \in NetOutcomes, s \in SaveOutcomes : CommandResponse(o, s)
    \/ CommandReply
    \/ \E d \in TimeSteps : AdvanceTime(d)
    \/ \E p \in Payloads : UpstreamChange(p)

Spec == Init /\ [][Next]_vars

NextEnv ==
    \/ Next
    \/ \E c \in CorruptContents \cup {CacheMissing} : CorruptCache(c)

SpecEnv == Init /\ [][NextEnv]_vars

\* the awaits of the scheduler task all end: the request within its 10 s
\* timeout, the sends and the presence update with a result or an exception
SchedulerStep ==
    \/ BeforeLoop
    \/ \E o \in NetOutcomes, s \in SaveOutcomes : BeforeLoopResponse(o, s)
    \/ TickStart
    \/ \E o \in NetOutcomes, s \in SaveOutcomes : TickResponse(o, s)
    \/ NotifyReadGuild
    \/ \E c \in ChannelStates, s \in SendOutcomes : NotifyChannel(c, s)
    \/ \E o \in PresenceOutcomes : UpdateBotStatus(o)

\* the initial states in which a tick has all its steps: destinations are
\* registered and presence updates are on (Config never changes in a run)
InitFanOut == Init /\ update_bot_status /\ channels["g1"] # <<>>

FairSpec == InitFanOut /\ [][Next]_vars /\ WF_vars(SchedulerStep)

----------------------------------------------------------------------------
\* Configuration commands on destinations and their filters.  Each runs
\* inside `async with self.config.guild(ctx.guild).channels() as channels`.

\* the text channels of each guild
GuildChannels == [g1 |-> {"c1", "c2"}, g2 |-> {"c3"}]

CommandPatterns == {PatA, PatLowerI, PatBad, PatBadI}

Reply(kind, text) == [kind |-> kind, text |-> text]

Registered(g, id) == \E i \in DOMAIN channels[g] : channels[g][i].id = id

IndexOf(g, id) == CHOOSE i \in DOMAIN channels[g] : channels[g][i].id = id

Without(seq, i) == SubSeq(seq, 1, i - 1) \o SubSeq(seq, i + 1, Len(seq))

\* what a command on destinations leaves alone
NotDestinations ==
    <<Env, cacheFile, InUse, check_interval, config_cache_age, update_bot_status,
      lastKnown, presence, pc, tick, cpc, sent, History, call, delivered>>

\* addchannel that writes a fresh entry whether or not the key is there
add_channel_Overwrites(g, id) ==
    /\ CogLoaded
    /\ IF ~Registered(g, id)
       THEN /\ channels' = [channels EXCEPT ![g] = Append(@, Channel(id, <<>>))]
            /\ reply' = Reply("success", "added")
       ELSE /\ channels' = [channels EXCEPT ![g][IndexOf(g, id)].filters = <<>>]
            /\ reply' = Reply("info", "already receiving")
    /\ UNCHANGED NotDestinations

\* addchannel (lines 438-460)
add_channel(g, id) ==
    /\ CogLoaded
    /\ IF ~Registered(g, id)
       THEN /\ channels' = [channels EXCEPT ![g] = Append(@, Channel(id, <<>>))]
            /\ reply' = Reply("success", "added")
       ELSE /\ UNCHANGED channels
            /\ reply' = Reply("info", "already receiving")
    /\ UNCHANGED NotDestinations

remove_channel(g, id) ==
    /\ CogLoaded
    /\ IF Registered(g, id)
       THEN /\ channels' = [channels EXCEPT ![g] = Without(@, IndexOf(g, id))]
            /\ reply' = Reply("success", "removed")
       ELSE /\ UNCHANGED channels
            /\ reply' = Reply("info", "not receiving")
    /\ UNCHANGED NotDestinations

\* filter add without the validation of lines 593-596
filter_add_Unvalidated(g, id, pattern) ==
    /\ CogLoaded
    /\ IF ~Registered(g, id)
       THEN /\ UNCHANGED channels
            /\ reply' = Reply("error", "not configured")
       ELSE LET i == IndexOf(g, id) IN
              IF pattern \notin Range(channels[g][i].filters)
              THEN /\ channels' = [channels EXCEPT ![g][i].filters = Append(@, pattern)]
                   /\ reply' = Reply("success", "pattern added")
              ELSE /\ UNCHANGED channels
                   /\ reply' = Reply("info", "pattern already listed")
    /\ UNCHANGED NotDestinations

filter_add(g, id, pattern) ==
    /\ CogLoaded
    /\ IF ~validate_pattern(pattern)
       THEN /\ UNCHANGED channels
            /\ reply' = Reply("error", "invalid pattern")
       ELSE IF ~Registered(g, id)
       THEN /\ UNCHANGED channels
            /\ reply' = Reply("error", "not configured")
       ELSE LET i == IndexOf(g, id) IN
              IF pattern \notin Range(channels[g][i].filters)
              THEN /\ channels' = [channels EXCEPT ![g][i].filters = Append(@, pattern)]
                   /\ reply' = Reply("success", "pattern added")
              ELSE /\ UNCHANGED channels
                   /\ reply' = Reply("info", "pattern already listed")
    /\ UNCHANGED NotDestinations

filter_remove(g, id, pattern) ==
    /\ CogLoaded
    /\ IF Registered(g, id) /\ pattern \in Range(channels[g][IndexOf(g, id)].filters)
       THEN LET i == IndexOf(g, id)
                k == CHOOSE k \in DOMAIN channels[g][i].filters :
                         channels[g][i].filters[k] = pattern
            IN  /\ channels' = [channels EXCEPT ![g][i].filters = Without(@, k)]
                /\ reply' = Reply("success", "pattern removed")
       ELSE /\ UNCHANGED channels
            /\ reply' = Reply("info", "pattern not listed")
    /\ UNCHANGED NotDestinations

filter_clear(g, id) ==
    /\ CogLoaded
    /\ IF Registered(g, id)
       THEN /\ channels' = [channels EXCEPT ![g][IndexOf(g, id)].filters = <<>>]
            /\ reply' = Reply("success", "filters cleared")
       ELSE /\ UNCHANGED channels
            /\ reply' = Reply("info", "not configured")
    /\ UNCHANGED NotDestinations

\* the cog loaded on an empty configuration, and the operator's commands
InitEmpty ==
    /\ Init
    /\ upstream = Payload(<<>>)
    /\ cacheFile = CacheMissing
    /\ ~update_bot_status
    /\ channels = [g1 |-> <<>>, g2 |-> <<>>]

NextDestinations ==
    \/ Initialize
    \/ \E g \in DOMAIN GuildChannels : \E id \in GuildChannels[g] :
         \/ add_channel(g, id)
         \/ remove_channel(g, id)
         \/ \E pattern \in CommandPatterns : filter_add(g, id, pattern)
         \/ \E pattern \in CommandPatterns : filter_remove(g, id, pattern)
         \/ filter_clear(g, id)

SpecDestinations == InitEmpty /\ [][NextDestinations]_vars

----------------------------------------------------------------------------
\* The commands `interval` and `cacheage`.  Each awaits the write of the
\* configuration value and then hands the value to the running loop or the
\* fetcher; the command task is the one of `check` (position cpc).

SecondsInputs == {0, 59, 60, 600}

NotSettings ==
    <<Env, cacheFile, update_bot_status, channels, lastKnown, presence, pc, tick,
      sent, History, call, delivered>>

\* interval without the test of lines 793-795
interval_command_NoMinimum(seconds, is_admin) ==
    /\ CogLoaded
    /\ cpc = "idle"
    /\ IF ~is_admin
       THEN /\ reply' = Reply("error", "not administrator")
            /\ UNCHANGED <<check_interval, cpc>>
       ELSE /\ check_interval' = seconds
            /\ cpc' = "interval_set"
            /\ UNCHANGED reply
    /\ UNCHANGED <<NotSettings, InUse, config_cache_age>>

\* lines 783-797, up to `await self.config.check_interval.set(seconds)`
interval_command(seconds, is_admin) ==
    /\ CogLoaded
    /\ cpc = "idle"
    /\ IF ~is_admin
       THEN /\ reply' = Reply("error", "not administrator")
            /\ UNCHANGED <<check_interval, cpc>>
       ELSE IF seconds < MinSeconds
       THEN /\ reply' = Reply("error", "below minimum")
            /\ UNCHANGED <<check_interval, cpc>>
       ELSE /\ check_interval' = seconds
            /\ cpc' = "interval_set"
            /\ UNCHANGED reply
    /\ UNCHANGED <<NotSettings, InUse, config_cache_age>>

\* the interval command ends without telling the loop
change_interval_Skipped ==
    /\ cpc = "interval_set"
    /\ reply' = Reply("success", "interval set")
    /\ cpc' = "idle"
    /\ UNCHANGED <<NotSettings, Config, InUse>>

\* lines 799-800: self.status_check_loop.change_interval(seconds=seconds)
change_interval ==
    /\ cpc = "interval_set"
    /\ loop_seconds' = check_interval
    /\ reply' = Reply("success", "interval set")
    /\ cpc' = "idle"
    /\ UNCHANGED <<NotSettings, Config, cache_age>>

\* lines 811-825, up to `await self.config.cache_age.set(seconds)`
cache_age_command(seconds, is_admin) ==
    /\ CogLoaded
    /\ cpc = "idle"
    /\ IF ~is_admin
       THEN /\ reply' = Reply("error", "not administrator")
            /\ UNCHANGED <<config_cache_age, cpc>>
       ELSE IF seconds < MinSeconds
       THEN /\ reply' = Reply("error", "below minimum")
            /\ UNCHANGED <<config_cache_age, cpc>>
       ELSE /\ config_cache_age' = seconds
            /\ cpc' = "cacheage_set"
            /\ UNCHANGED reply
    /\ UNCHANGED <<NotSettings, InUse, check_interval>>

\* lines 827-828: self.status_api.status_api.cache_age = seconds
set_cache_age ==
    /\ cpc = "cacheage_set"
    /\ cache_age' = config_cache_age
    /\ reply' = Reply("success", "cache age set")
    /\ cpc' = "idle"
    /\ UNCHANGED <<NotSettings, Config, loop_seconds>>

InitSettings ==
    /\ now = 0
    /\ upstream = Payload(<<Entry(TitleA, "PS4")>>)
    /\ cacheFile \in {CacheMissing, CacheRecord(0, Payload(<<>>))}
    /\ cache_age = DefaultCacheAge
    /\ loop_seconds = DefaultInterval
    /\ check_interval = DefaultInterval
    /\ config_cache_age = DefaultCacheAge
    /\ update_bot_status = FALSE
    /\ channels = [g1 |-> <<Channel("c1", <<>>)>>, g2 |-> <<>>]
    /\ lastKnown = {}
    /\ presence = -1
    /\ pc = "init"
    /\ tick = NoTick
    /\ cpc = "idle"
    /\ sent = {}
    /\ lastTick = "none"
    /\ seed = "none"
    /\ call = NoCall
    /\ reply = NoReply
    /\ delivered = {}

\* the scheduler and the check command at work on one upstream snapshot,
\* and the two settings commands
NextSettings ==
    \/ Initialize
    \/ BeforeLoop
    \/ \E o \in NetOutcomes, s \in SaveOutcomes : BeforeLoopResponse(o, s)
    \/ TickStart
    \/ \E o \in NetOutcomes, s \in SaveOutcomes : TickResponse(o, s)
    \/ NotifyReadGuild
    \/ \E c \in ChannelStates, s \in SendOutcomes : NotifyChannel(c, s)
    \/ \E o \in PresenceOutcomes : UpdateBotStatus(o)
    \/ \E force \in BOOLEAN : CommandFetch(force)
    \/ \E o \in NetOutcomes, s \in SaveOutcomes : CommandResponse(o, s)
    \/ CommandReply
    \/ \E d \in TimeSteps : AdvanceTime(d)
    \/ \E seconds \in SecondsInputs, is_admin \in BOOLEAN :
         interval_command(seconds, is_admin)
    \/ change_interval
    \/ \E seconds \in SecondsInputs, is_admin \in BOOLEAN :
         cache_age_command(seconds, is_admin)
    \/ set_cache_age

SpecSettings == InitSettings /\ [][NextSettings]_vars

----------------------------------------------------------------------------
\* The filter engine called directly, on inputs drawn from bounded sets:
\* parse_flags as compile_pattern and validate_pattern call it, and
\* _filter_issues_by_games as _post_status_updates calls it.

MaxPatternLen == 3

MaxRules == 2

MaxNameLen == 4

Strings(alphabet, n) == UNION { [1..k -> alphabet] : k \in 0..n }

PatternChars == {"A", "i", "I", "g", "/", "["}

PatternInputs == Strings(PatternChars, MaxPatternLen)

FilterRules == {PatA, PatLowerI, PatBad, PatBadI}

RuleLists == Strings(FilterRules, MaxRules)

IssueUniverse == {<<"A">>, <<"a">>, <<"B", "A">>, <<"B">>} \X {"PS4", "PC"}

FooNames == Strings({"F", "f", "o", "O"}, MaxNameLen)

FilterInputs ==
    ((SUBSET IssueUniverse) \X RuleLists)
    \cup ({ {<<name, "PC">>} : name \in FooNames } \X {<<PatFoo>>, <<PatFooI>>})

Program == <<now, upstream, cacheFile, Config, InUse, lastKnown, presence, pc,
             tick, cpc, sent, lastTick, seed, reply, delivered>>

CallParseFlags(pattern) ==
    /\ call = NoCall
    /\ call' = [fn |-> "parse_flags", pattern |-> pattern,
                result |-> parse_flags(pattern)]
    /\ UNCHANGED Program

CallFilter(issues, filter_patterns) ==
    /\ call = NoCall
    /\ call' = [fn |-> "filter_issues_by_games", issues |-> issues,
                filter_patterns |-> filter_patterns,
                result |-> filter_issues_by_games(issues, filter_patterns)]
    /\ UNCHANGED Program

InitEngine ==
    /\ Init
    /\ upstream = Payload(<<>>)
    /\ cacheFile = CacheMissing
    /\ ~update_bot_status
    /\ channels = [g1 |-> <<>>, g2 |-> <<>>]

NextEngine ==
    \/ \E pattern \in PatternInputs : CallParseFlags(pattern)
    \/ \E input \in FilterInputs : CallFilter(input[1], input[2])

SpecEngine == InitEngine /\ [][NextEngine]_vars

----------------------------------------------------------------------------
\* The cache file as text.  json.dump writes the record as a sequence of
\* tokens, json.load parses such a sequence back; a text that does not parse
\* is what _load_cache answers with None.  An entry of serverStatuses is a
\* record that may lack either field.

MaxEntries == 2

Tok(t) == [t |-> t]

Key(k) == [t |-> "key", k |-> k]

Str(v) == [t |-> "str", v |-> v]

\* datetime.isoformat(): the fraction is left out when microsecond is 0
isoformat(dt) == IF dt.us = 0 THEN [s |-> dt.s] ELSE [s |-> dt.s, us |-> dt.us]

\* datetime.fromisoformat()
fromisoformat(text) ==
    [s |-> text.s, us |-> IF "us" \in DOMAIN text THEN text.us ELSE 0]

json_dump_entry(e) ==
    <<Tok("{")>>
    \o (IF "gameTitle" \in DOMAIN e THEN <<Key("gameTitle"), Str(e.gameTitle)>> ELSE <<>>)
    \o (IF "platform" \in DOMAIN e THEN <<Key("platform"), Str(e.platform)>> ELSE <<>>)
    \o <<Tok("}")>>

RECURSIVE json_dump_list(_)
json_dump_list(entries) ==
    IF entries = <<>> THEN <<>>
    ELSE json_dump_entry(Head(entries)) \o json_dump_list(Tail(entries))

json_dump_data(data) ==
    <<Tok("{")>>
    \o (IF "serverStatuses" \in DOMAIN data
        THEN <<Key("serverStatuses"), Tok("[")>>
             \o json_dump_list(data.serverStatuses) \o <<Tok("]")>>
        ELSE <<>>)
    \o <<Tok("}")>>

\* json.dump(cache_data, f) with cache_data as _save_cache builds it
json_dump(cache_data) ==
    <<Tok("{"), Key("_cache_timestamp"), Str(cache_data._cache_timestamp), Key("data")>>
    \o json_dump_data(cache_data.data)
    \o <<Tok("}")>>

At(text, i) == IF i \in DOMAIN text THEN text[i] ELSE Tok("eof")

IsKey(tok, k) == tok.t = "key" /\ tok.k = k

ParseFail == [ok |-> FALSE]

Parsed(value, next) == [ok |-> TRUE, value |-> value, next |-> next]

NoFields == [k \in {} |-> ""]

json_load_entry(text, i) ==
    IF At(text, i).t # "{" THEN ParseFail
    ELSE LET hasTitle == IsKey(At(text, i + 1), "gameTitle")
             j == IF hasTitle THEN i + 3 ELSE i + 1
             hasPlatform == IsKey(At(text, j), "platform")
             m == IF hasPlatform THEN j + 2 ELSE j
         IN  IF \/ hasTitle /\ At(text, i + 2).t # "str"
                \/ hasPlatform /\ At(text, j + 1).t # "str"
                \/ At(text, m).t # "}"
             THEN ParseFail
             ELSE Parsed((IF hasTitle THEN [gameTitle |-> text[i + 2].v] ELSE NoFields)
                         @@ (IF hasPlatform THEN [platform |-> text[j + 1].v] ELSE NoFields),
                         m + 1)

RECURSIVE json_load_list(_, _)
json_load_list(text, i) ==
    IF At(text, i).t = "]" THEN Parsed(<<>>, i + 1)
    ELSE LET e == json_load_entry(text, i) IN
         IF ~e.ok THEN ParseFail
         ELSE LET rest == json_load_list(text, e.next) IN
              IF ~rest.ok THEN ParseFail
              ELSE Parsed(<<e.value>> \o rest.value, rest.next)

json_load_data(text, i) ==
    IF At(text, i).t # "{" THEN ParseFail
    ELSE IF At(text, i + 1).t = "}" THEN Parsed([kind |-> "dict"], i + 2)
    ELSE IF ~IsKey(At(text, i + 1), "serverStatuses") \/ At(text, i + 2).t # "[" THEN ParseFail
    ELSE LET list == json_load_list(text, i + 3) IN
         IF ~list.ok THEN ParseFail
         ELSE IF At(text, list.next).t # "}" THEN ParseFail
         ELSE Parsed(Payload(list.value), list.next + 1)

\* json.load(f): the parsed record, or JSONDecodeError
json_load(text) ==
    IF \/ At(text, 1).t # "{"
       \/ ~IsKey(At(text, 2), "_cache_timestamp")
       \/ At(text, 3).t # "str"
       \/ ~IsKey(At(text, 4), "data")
    THEN [kind |-> "not_json"]
    ELSE LET data == json_load_data(text, 5) IN
         IF ~data.ok THEN [kind |-> "not_json"]
         ELSE IF At(text, data.next).t # "}" \/ data.next # Len(text)
         THEN [kind |-> "not_json"]
         ELSE [kind |-> "object", _cache_timestamp |-> text[3].v, data |-> data.value]

\* json.dump that writes the status list as a set: order and repetitions
\* of the entries are lost
save_cache_text_Unordered(data, dt) ==
    LET entries == IF "serverStatuses" \in DOMAIN data THEN data.serverStatuses ELSE <<>>
        Pick(S) == CHOOSE e \in S : TRUE
        AsSeq[S \in SUBSET Range(entries)] ==
            IF S = {} THEN <<>> ELSE <<Pick(S)>> \o AsSeq[S \ {Pick(S)}]
    IN  json_dump([_cache_timestamp |-> isoformat(dt),
                   data |-> IF "serverStatuses" \in DOMAIN data
                            THEN Payload(AsSeq[Range(entries)]) ELSE data])

\* _save_cache, lines 102-108: the text written to the file
save_cache_text(data, dt) ==
    json_dump([_cache_timestamp |-> isoformat(dt), data |-> data])

\* _load_cache of a file holding `text`, and the timestamp as fetch_status
\* and initialize parse it: the file in the terms of the Cache Store above
load_cache_text(text) ==
    LET cache_data == json_load(text) IN
      IF cache_data.kind = "not_json" THEN CacheTruncated
      ELSE CacheRecord(fromisoformat(cache_data._cache_timestamp).s, cache_data.data)

\* statuses as the endpoint can list them: complete, with an empty field,
\* or with a field missing
EntryInputs ==
    { Entry(TitleA, "PS4"), Entry(TitleB, "PC"), Entry(<<>>, "PC"),
      Entry(TitleA, ""), [platform |-> "PC"], [gameTitle |-> TitleB] }

SnapshotInputs ==
    { Payload(list) : list \in Strings(EntryInputs, MaxEntries) } \cup {[kind |-> "dict"]}

SaveTimes == { [s |-> sec, us |-> us] : sec \in {0, 300}, us \in {0, 5} }

\* seconds between the write and the fetch_status that reads the record
ReadDelays == {0, 299, 300}

\* save, load and a fetch_status() without force `delay` seconds later
CallCacheRoundTrip(data, dt, delay) ==
    /\ call = NoCall
    /\ LET text == save_cache_text(data, dt)
           file == load_cache_text(text)
       IN  call' = [fn |-> "cache_round_trip", data |-> data, saved_at |-> dt,
                    delay |-> delay, text |-> text,
                    loaded |-> json_load(text),
                    fetched |-> CacheCheck(FALSE, file, cache_age, dt.s + delay)]
    /\ UNCHANGED Program

\* issue sets for the direct calls of the diff
DiffIssues == {<<TitleA, "PS4">>, <<TitleA, "PC">>, <<TitleB, "PC">>}

\* the two set differences of status_check_loop, taken both ways round
CallDiff(a, b) ==
    /\ call = NoCall
    /\ call' = [fn |-> "diff", a |-> a, b |-> b,
                ab |-> Diff(a, b), ba |-> Diff(b, a)]
    /\ UNCHANGED Program

\* payloads as response.json() can return them: the snapshots above, an
\* object with a null status list, lists with a null among the entries
PayloadInputs ==
    SnapshotInputs
    \cup {NullStatuses, Payload(<<NullEntry>>), Payload(<<Entry(TitleA, "PS4"), NullEntry>>)}

\* get_games_with_issues(data): the set, or the exception
CallGamesWithIssues(data) ==
    /\ call = NoCall
    /\ call' = [fn |-> "get_games_with_issues", data |-> data,
                raised |-> StatusesRaise(data),
                result |-> IF StatusesRaise(data) THEN {}
                           ELSE get_games_with_issues(data)]
    /\ UNCHANGED Program

\* data.get("recentlyResolved", {}); the model keeps of it the set of game
\* titles it names
get_recently_resolved(data) ==
    IF ~Truthy(data) THEN {} ELSE Get(data, "recentlyResolved", {})

get_all_games(data) ==
    { Get(s, "gameTitle", <<>>) :
        s \in { e \in Range(get_server_statuses(data)) : Get(e, "gameTitle", <<>>) # <<>> } }

\* list_games, lines 718-733: the titles it lists
list_games(data) ==
    LET current_games == get_all_games(data)
        server_statuses == get_server_statuses(data)
        recently_resolved == get_recently_resolved(data)
        all_games == current_games
                     \cup { e.gameTitle : e \in { x \in Range(server_statuses) :
                                                     Get(x, "gameTitle", <<>>) # <<>> } }
    IN  all_games

\* payloads with and without a recentlyResolved member
ListInputs ==
    { Payload(list) : list \in Strings(EntryInputs, MaxEntries) }
    \cup { [kind |-> "dict", serverStatuses |-> list, recentlyResolved |-> names] :
             list \in Strings({Entry(TitleA, "PS4")}, 1),
             names \in SUBSET {TitleA, TitleB} }

CallListGames(data) ==
    /\ call = NoCall
    /\ call' = [fn |-> "list_games", data |-> data, result |-> list_games(data)]
    /\ UNCHANGED Program

InitData ==
    /\ Init
    /\ upstream = Payload(<<>>)
    /\ cacheFile = CacheMissing
    /\ ~update_bot_status
    /\ channels = [g1 |-> <<>>, g2 |-> <<>>]

NextData ==
    \/ \E data \in SnapshotInputs, dt \in SaveTimes, delay \in ReadDelays :
         CallCacheRoundTrip(data, dt, delay)
    \/ \E a \in SUBSET DiffIssues, b \in SUBSET DiffIssues : CallDiff(a, b)
    \/ \E data \in PayloadInputs : CallGamesWithIssues(data)
    \/ \E data \in ListInputs : CallListGames(data)

SpecData == InitData /\ [][NextData]_vars

----------------------------------------------------------------------------
\* The fan-out over the same destinations registered in either order

FanOutConfigs ==
    { [g1 |-> <<Channel("c1", <<>>), Channel("c2", <<PatA>>)>>,
       g2 |-> <<Channel("c3", <<PatBad>>), Channel("c4", <<>>)>>],
      [g1 |-> <<Channel("c2", <<PatA>>), Channel("c1", <<>>)>>,
       g2 |-> <<Channel("c4", <<>>), Channel("c3", <<PatBad>>)>>] }

InitOrders ==
    /\ now = 0
    /\ upstream \in Payloads
    /\ cacheFile = CacheMissing
    /\ cache_age = DefaultCacheAge
    /\ loop_seconds = DefaultInterval
    /\ check_interval = DefaultInterval
    /\ config_cache_age = DefaultCacheAge
    /\ update_bot_status = FALSE
    /\ channels \in FanOutConfigs
    /\ lastKnown = {}
    /\ presence = -1
    /\ pc = "init"
    /\ tick = NoTick
    /\ cpc = "idle"
    /\ sent = {}
    /\ lastTick = "none"
    /\ seed = "none"
    /\ call = NoCall
    /\ reply = NoReply
    /\ delivered = {}

SpecFanOut == InitOrders /\ [][Next]_vars

----------------------------------------------------------------------------
\* The cache write step by step. _save_cache is a plain function: it opens
\* the file for writing (which empties it) and dumps the record, with no
\* await in between, and asyncio runs one task until that task awaits. The
\* positions "tick_saving" and "saving" are inside _save_cache, after the
\* open and before the dump.

\* an event loop that pre-empts a task anywhere (threads)
LoopFree_Preemptive == TRUE

\* the event loop can run another task, or the environment can be seen to
\* move: no task is inside synchronous code
LoopFree == pc # "tick_saving" /\ cpc # "saving"

OpenOutcomes == {"ok", "open_error"}

DumpOutcomes == {"ok", "write_error", "crash"}

\* the tick resumes with the response; fetch_status line 69 and _save_cache
\* up to the open (lines 102-107)
TickResume(outcome, openOutcome) ==
    /\ LoopFree
    /\ pc = "tick_net"
    /\ LET data == fetch_with_session(outcome, upstream) IN
         IF ~Truthy(data)
         THEN /\ openOutcome = "ok"
              /\ TickFetchFailed
              /\ UNCHANGED cacheFile
         ELSE IF openOutcome = "open_error"
         THEN /\ ProcessSnapshot(data, "net")
              /\ UNCHANGED cacheFile
         ELSE /\ pc' = "tick_saving"
              /\ cacheFile' = CacheTruncated
              /\ tick' = [NoTick EXCEPT !.data = data, !.src = "net"]
              /\ UNCHANGED <<lastKnown, presence, sent, History>>
    /\ UNCHANGED <<Env, Config, InUse, call, reply, delivered, cpc>>

\* json.dump and the close (line 108), the return of fetch_status and the
\* tick up to its next await
TickDump(dumpOutcome) ==
    /\ pc = "tick_saving"
    /\ cacheFile' = save_cache(cacheFile, tick.data, now, dumpOutcome)
    /\ IF dumpOutcome = "crash" THEN Stop
       ELSE /\ ProcessSnapshot(tick.data, "net")
            /\ UNCHANGED <<Env, Config, InUse, call, reply, delivered, cpc>>

\* the command resumes with the response, up to the open
CommandResume(outcome, openOutcome) ==
    /\ LoopFree
    /\ cpc \in {"net", "net_forced"}
    /\ LET data == fetch_with_session(outcome, upstream) IN
         IF ~Truthy(data)
         THEN /\ openOutcome = "ok"
              /\ cpc' = "replying"
              /\ UNCHANGED cacheFile
         ELSE IF openOutcome = "open_error"
         THEN /\ cpc' = "replying"
              /\ UNCHANGED cacheFile
         ELSE /\ cpc' = "saving"
              /\ cacheFile' = CacheTruncated
    /\ UNCHANGED <<Env, Config, InUse, call, reply, delivered, lastKnown, presence, pc, tick, sent, History>>

\* the command's dump; the environment does not move during the write, so
\* the response in hand is still what the endpoint serves
CommandDump(dumpOutcome) ==
    /\ cpc = "saving"
    /\ cacheFile' = save_cache(cacheFile, upstream, now, dumpOutcome)
    /\ IF dumpOutcome = "crash" THEN Stop
       ELSE /\ cpc' = "replying"
            /\ UNCHANGED <<Env, Config, InUse, call, reply, delivered, lastKnown, presence, pc, tick, sent,
                           History>>

\* the loop is asleep after a seeding fetch that failed, the cache file is
\* not there yet
InitWriters ==
    /\ now = 0
    /\ upstream \in Payloads
    /\ cacheFile = CacheMissing
    /\ cache_age = DefaultCacheAge
    /\ loop_seconds = DefaultInterval
    /\ check_interval = DefaultInterval
    /\ config_cache_age = DefaultCacheAge
    /\ update_bot_status = FALSE
    /\ channels = [g1 |-> <<Channel("c1", <<>>)>>, g2 |-> <<>>]
    /\ lastKnown = {}
    /\ presence = -1
    /\ pc = "sleep"
    /\ tick = NoTick
    /\ cpc = "idle"
    /\ sent = {}
    /\ lastTick = "none"
    /\ seed = "none"
    /\ call = NoCall
    /\ reply = NoReply
    /\ delivered = {}

NextWriters ==
    \/ LoopFree /\ TickStart
    \/ \E o \in NetOutcomes, s \in OpenOutcomes : TickResume(o, s)
    \/ \E s \in DumpOutcomes : TickDump(s)
    \/ LoopFree /\ NotifyReadGuild
    \/ \E c \in ChannelStates, s \in SendOutcomes : LoopFree /\ NotifyChannel(c, s)
    \/ \E o \in PresenceOutcomes : LoopFree /\ UpdateBotStatus(o)
    \/ \E f \in BOOLEAN : LoopFree /\ CommandFetch(f)
    \/ \E o \in NetOutcomes, s \in OpenOutcomes : CommandResume(o, s)
    \/ \E s \in DumpOutcomes : CommandDump(s)
    \/ LoopFree /\ CommandReply
    \/ \E d \in TimeSteps : LoopFree /\ AdvanceTime(d)
    \/ \E p \in Payloads : LoopFree /\ UpstreamChange(p)

SpecWriters == InitWriters /\ [][NextWriters]_vars

----------------------------------------------------------------------------
\* The scheduler on its own: the loop task and its environment, no operator
\* command in between

NextScheduler ==
    \/ Initialize
    \/ SchedulerStep
    \/ CogUnload
    \/ \E d \in TimeSteps : AdvanceTime(d)
    \/ \E p \in Payloads : UpstreamChange(p)

SpecScheduler == Init /\ [][NextScheduler]_vars

----------------------------------------------------------------------------
\* The scheduler with the history of deliveries, while the endpoint keeps
\* serving one payload: whatever a destination is sent twice in such a run
\* it is sent twice without any change upstream in between

NextDelivery ==
    \/ Initialize
    \/ BeforeLoop
    \/ \E o \in NetOutcomes, s \in SaveOutcomes : BeforeLoopResponse(o, s)
    \/ TickStart
    \/ \E o \in NetOutcomes, s \in SaveOutcomes : TickResponse(o, s)
    \/ NotifyReadGuild
    \/ \E c \in ChannelStates, s \in SendOutcomes : NotifyChannelLogged(c, s)
    \/ \E o \in PresenceOutcomes : UpdateBotStatus(o)
    \/ CogUnload
    \/ \E d \in TimeSteps : AdvanceTime(d)

SpecDelivery == Init /\ [][NextDelivery]_vars

----------------------------------------------------------------------------
\* The scheduler while an operator removes destinations

NextRemoval ==
    \/ Initialize
    \/ SchedulerStep
    \/ \E g \in DOMAIN GuildChannels : \E id \in GuildChannels[g] : remove_channel(g, id)
    \/ \E d \in TimeSteps : AdvanceTime(d)
    \/ \E p \in Payloads : UpstreamChange(p)

SpecRemoval == InitOrders /\ [][NextRemoval]_vars

----------------------------------------------------------------------------
\* Convergence: the endpoint keeps serving one payload, the loop is not
\* cancelled, and c1, registered without filters, is there and its send
\* works. The sends to the other destinations go as they may.

WorkingDestination == "c1"

InitConverge ==
    /\ Init
    /\ channels["g1"] # <<>>

\* one pass of the fan-out; the pass over c1 finds the channel and delivers
NotifyWorking(chanState, sendOutcome) ==
    /\ NotifyChannelLogged(chanState, sendOutcome)
    /\ Head(tick.queue).id = WorkingDestination => chanState = "ok" /\ sendOutcome = "ok"

\* a request of the tick that succeeds
TickFetchSucceeds == \E s \in SaveOutcomes \ {"crash"} : TickResponse("ok", s)

ConvergeStep ==
    \/ BeforeLoop
    \/ \E o \in NetOutcomes, s \in SaveOutcomes : BeforeLoopResponse(o, s)
    \/ TickStart
    \/ \E o \in NetOutcomes, s \in SaveOutcomes : TickResponse(o, s)
    \/ NotifyReadGuild
    \/ \E c \in ChannelStates, s \in SendOutcomes : NotifyWorking(c, s)
    \/ \E o \in PresenceOutcomes : UpdateBotStatus(o)

NextConverge ==
    \/ Initialize
    \/ ConvergeStep
    \/ \E d \in TimeSteps : AdvanceTime(d)

\* the loop task is always scheduled again (discord.ext.tasks), the clock
\* advances, and a request that is made again and again succeeds in the end
FairConverge ==
    /\ InitConverge
    /\ [][NextConverge]_vars
    /\ WF_vars(ConvergeStep)
    /\ WF_vars(\E d \in TimeSteps : AdvanceTime(d))
    /\ SF_vars(TickFetchSucceeds)

----------------------------------------------------------------------------
\* Properties

InTick == pc \in {"tick_net", "notify", "presence"}

InFanOut == pc \in {"notify", "presence"}

\* the cache file holds a record younger than cache_age / at least that old
Fresh == cacheFile.kind = "valid" /\ now - cacheFile.ts < cache_age

Stale == cacheFile.kind = "valid" /\ now - cacheFile.ts >= cache_age

\* the tick step under way took snapshot d from the cache and used it
ServedFromCache(d) ==
    \/ pc' = "notify" /\ tick'.data = d /\ tick'.src = "cache"
    \/ pc' = "sleep" /\ lastKnown' = get_games_with_issues(d)

\* the destinations the fan-out has not come to yet: the rest of the guild
\* in hand and the channels of the guilds after it
PendingDestinations ==
    Range(IF tick.loaded THEN Tail(tick.queue) ELSE <<>>)
    \cup UNION { Range(channels[GuildOrder[j]]) :
                   j \in { i \in DOMAIN GuildOrder :
                             i > tick.g \/ (i = tick.g /\ ~tick.loaded) } }

Entitled(channel) ==
    \/ filter_issues_by_games(tick.new, channel.filters) # {}
    \/ filter_issues_by_games(tick.resolved, channel.filters) # {}

\* C1: the first scheduler fetch that returns a snapshot only seeds lastKnown
\* and notifies nobody, also when that fetch happens in a tick because the
\* seeding fetch failed: the tick that made it has sent no message.
C1_FirstSnapshotIsSilent == seed = "tick" => sent = {}

\* C2: a tick whose fetch succeeds computes added = current \ lastKnown and
\* removed = lastKnown \ current, runs the notify step iff one of them is
\* non-empty, and a destination without filters is sent exactly these sets.
C2_DeltaInvariant ==
    /\ InFanOut =>
         LET current == get_games_with_issues(tick.data) IN
           /\ tick.new = current \ lastKnown
           /\ tick.resolved = lastKnown \ current
           /\ tick.new \cup tick.resolved # {}
    /\ sent # {} => InFanOut
    /\ \A m \in sent :
         m.filters = <<>> => m.added = tick.new /\ m.removed = tick.resolved

C2_FetchStep ==
    /\ \A o \in NetOutcomes, s \in SaveOutcomes :
         (/\ TickResponse(o, s)
          /\ Truthy(fetch_with_session(o, upstream))
          /\ s # "crash")
         => LET current == get_games_with_issues(upstream) IN
              (pc' = "notify") <=> (current \ lastKnown # {} \/ lastKnown \ current # {})
    /\ (TickStart /\ Fresh)
         => LET current == get_games_with_issues(cacheFile.data) IN
              (pc' = "notify") <=> (current \ lastKnown # {} \/ lastKnown \ current # {})

C2_DeltaAndNotify == []C2_DeltaInvariant /\ [][C2_FetchStep]_vars

C2_Witness ==
    /\ pc = "presence"
    /\ \E m \in sent : m.filters = <<>> /\ m.added # {} /\ m.removed # {}

\* C3: a tick whose fetch returns absent leaves lastKnown and the presence
\* indicator as they were, sends nothing and ends normally.
C3_AbsentFetchChangesNothing ==
    [][ \A o \in NetOutcomes :
          (TickResponse(o, "ok") /\ ~Truthy(fetch_with_session(o, upstream)))
          => /\ lastKnown' = lastKnown
             /\ sent = {} /\ sent' = {}
             /\ presence' = presence
             /\ pc' = "sleep" ]_vars

C3_Witness == pc = "sleep" /\ lastTick = "absent" /\ lastKnown # {}

\* C4: after every tick whose fetch succeeded lastKnown is the issue set of
\* the snapshot the tick fetched, whatever happened in the notify step.
C4_LastKnownFollowsFetch ==
    [][ /\ (InFanOut /\ pc' = "sleep")
           => lastKnown' = get_games_with_issues(tick.data)
        /\ \A s \in SaveOutcomes :
             (TickResponse("ok", s) /\ pc' = "sleep")
             => lastKnown' = get_games_with_issues(upstream) ]_vars

\* C5: a failure while delivering to one destination keeps delivery from no
\* other destination entitled to a non-empty filtered delta: the fan-out
\* never ends while such a destination is still to come.
C5_FailureIsIsolated ==
    [][ (pc = "notify" /\ pc' = "sleep")
        => { d \in PendingDestinations : Entitled(d) } = {} ]_vars

\* C6: an exception raised in a tick is caught in that tick and does not
\* stop the scheduler: every tick ends with the scheduler back asleep, from
\* where the next tick starts, unless it is cancelled or the process stops.
C6_TickNeverStopsScheduler ==
    /\ [](lastTick = "raised" => pc \in {"sleep", "cancelled", "stopped"})
    /\ [](InTick => <>(pc \in {"sleep", "cancelled", "stopped"}))

C6_Witness == pc = "sleep" /\ lastTick = "raised" /\ ENABLED TickStart

\* C7: a fetch_status call without force returns the cached snapshot and
\* issues no request when the record is younger than cache_age, and issues
\* a request when the record is cache_age old or older.
C7_CacheAgeDecides ==
    [][ /\ TickStart =>
             /\ Fresh => ServedFromCache(cacheFile.data)
             /\ Stale => pc' = "tick_net"
        /\ BeforeLoop =>
             /\ Fresh => /\ pc' = "sleep"
                         /\ lastKnown' = get_games_with_issues(cacheFile.data)
             /\ Stale => pc' = "before_net"
        /\ CommandFetch(FALSE) =>
             /\ Fresh => cpc' = "replying"
             /\ Stale => cpc' = "net" ]_vars

\* a request is in flight for a record exactly cache_age old
C7_Witness ==
    /\ pc = "tick_net"
    /\ cacheFile.kind = "valid"
    /\ now - cacheFile.ts = cache_age

\* C8 as stated: a forced call always issues a request, and when the
\* request succeeds the cache holds the new snapshot with a new cachedAt.
C8_ForcedFetchReplacesCache ==
    [][ /\ CommandFetch(TRUE) => cpc' = "net_forced"
        /\ \A s \in SaveOutcomes :
             (cpc = "net_forced" /\ CommandResponse("ok", s))
             => cacheFile' = CacheRecord(now, upstream) ]_vars

\* C8 as amended: a forced call always issues a request, and when the
\* request succeeds and the cache write completes, the cache holds the new
\* snapshot with a new cachedAt.
C8_ForcedFetchReplacesCacheIfWritten ==
    [][ /\ CommandFetch(TRUE) => cpc' = "net_forced"
        /\ (cpc = "net_forced" /\ CommandResponse("ok", "ok"))
             => cacheFile' = CacheRecord(now, upstream) ]_vars

\* a forced request is in flight although the cache holds a fresh record
C8_Witness == cpc = "net_forced" /\ Fresh

\* C9: whatever the cache file holds, if it is no valid record a call
\* without force goes on to the network request and raises nothing.
C9_CorruptCacheIsMiss ==
    [][ /\ (TickStart /\ cacheFile.kind # "valid") => pc' = "tick_net"
        /\ (BeforeLoop /\ cacheFile.kind # "valid") => pc' = "before_net"
        /\ (CommandFetch(FALSE) /\ cacheFile.kind # "valid") => cpc' = "net" ]_vars

\* C10: when the process stops during _save_cache the file holds the
\* previous content or the complete new record.
C10_CacheWriteIsAtomic ==
    [][ (pc # "stopped" /\ pc' = "stopped")
        => \/ cacheFile' = cacheFile
           \/ cacheFile' = CacheRecord(now, upstream) ]_vars

\* C11: under every interleaving of the scheduler with the commands that
\* fetch, at most one request to the status endpoint is in flight: the
\* scheduler's request and a command's request never wait at the same time.
C11_OneRequestInFlight ==
    ~(pc \in {"before_net", "tick_net"} /\ cpc \in {"net", "net_forced"})

\* what the rules of the engine's inputs mean, written out by hand: the
\* text a rule looks for, and whether letter case matters
WellFormedRules == {PatA, PatLowerI, PatFoo, PatFooI}

RuleText(rule) ==
    CASE rule = PatA -> <<"A">>
      [] rule = PatLowerI -> <<"a">>
      [] rule = PatFoo -> <<"F", "o", "o">>
      [] rule = PatFooI -> <<"f", "o", "o">>

RuleFoldsCase(rule) == rule \in {PatLowerI, PatFooI}

LowerName(name) == [i \in DOMAIN name |-> Lower(name[i])]

Contains(name, word) ==
    \E i \in 1..(Len(name) - Len(word) + 1) :
        SubSeq(name, i, i + Len(word) - 1) = word

NameMatches(name, rule) ==
    IF RuleFoldsCase(rule)
    THEN Contains(LowerName(name), LowerName(RuleText(rule)))
    ELSE Contains(name, RuleText(rule))

FilterCall == call.fn = "filter_issues_by_games"

\* C12: with a non-empty rule list _filter_issues_by_games returns exactly
\* the issues whose name some valid rule finds as a substring; invalid rules
\* are skipped and change nothing, the platform plays no part, and the
\* result is a subset of the input.
C12_FilterResult ==
    (FilterCall /\ call.filter_patterns # <<>>) =>
      LET valid == Range(call.filter_patterns) \cap WellFormedRules IN
        /\ call.result = { issue \in call.issues :
                             \E rule \in valid : NameMatches(issue[1], rule) }
        /\ call.result \subseteq call.issues
        /\ \A a \in call.issues, b \in call.issues :
             a[1] = b[1] => (a \in call.result <=> b \in call.result)
        /\ valid # {} =>
             call.result = filter_issues_by_games(
                 call.issues, SelectSeq(call.filter_patterns, validate_pattern))

\* an invalid rule stands before a valid one, and the valid one finds "A"
\* inside "BA" but not in "B"
C12_Witness ==
    /\ FilterCall
    /\ call.filter_patterns = <<PatBad, PatA>>
    /\ <<<<"B", "A">>, "PC">> \in call.result
    /\ <<<<"B">>, "PC">> \in call.issues \ call.result

\* C13: with a non-empty rule list that holds only invalid rules the
\* filtered set is empty for every input; it never falls back to accept-all.
C13_FailClosed ==
    (/\ FilterCall
     /\ call.filter_patterns # <<>>
     /\ Range(call.filter_patterns) \cap WellFormedRules = {})
    => call.result = {}

C13_Witness ==
    /\ FilterCall
    /\ call.filter_patterns = <<PatBad, PatBadI>>
    /\ call.issues = IssueUniverse
    /\ call.result = {}

\* C14: filtering any issue set with an empty rule list returns the set
\* unchanged.
C14_EmptyFilterAcceptsAll ==
    (FilterCall /\ call.filter_patterns = <<>>) => call.result = call.issues

C14_Witness ==
    /\ FilterCall
    /\ call.filter_patterns = <<>>
    /\ call.issues = IssueUniverse
    /\ call.result = IssueUniverse

\* the rule list configured for a destination
FiltersOf(dest) ==
    LET registered == UNION { Range(channels[g]) : g \in Range(GuildOrder) }
    IN  (CHOOSE channel \in registered : channel.id = dest).filters

\* what a rule list lets through, by the meaning of its rules
Accepted(issues, rules) ==
    IF rules = <<>> THEN issues
    ELSE { issue \in issues :
             \E rule \in Range(rules) \cap WellFormedRules :
                 NameMatches(issue[1], rule) }

\* C15: in a tick's fan-out the added and removed sets sent to a destination
\* are the tick's delta filtered by that destination's own rule list,
\* whatever the other destinations' rule lists and the visiting order: the
\* destination with filter ["A"] gets only issues of names matching A, a
\* destination without filters the whole delta.
C15_PerDestinationFilter ==
    \A m \in sent :
        /\ m.added = Accepted(tick.new, FiltersOf(m.dest))
        /\ m.removed = Accepted(tick.resolved, FiltersOf(m.dest))
        /\ m.dest = "c2" => \A issue \in m.added \cup m.removed :
                                Contains(issue[1], <<"A">>)
        /\ m.dest \in {"c1", "c4"} => m.added = tick.new /\ m.removed = tick.resolved

\* one tick has sent the whole delta to an unfiltered destination and less
\* to the filtered one visited before it
C15_Witness ==
    /\ channels["g1"][1].id = "c2"
    /\ \E m1 \in sent, m2 \in sent :
         /\ m1.dest = "c1" /\ m2.dest = "c2"
         /\ m1.removed # m2.removed

ParseCall == call.fn = "parse_flags"

\* the text after the last "/" of a pattern that holds one
AfterLastSlash(p) == SubSeq(p, LastSlash(p) + 1, Len(p))

BeforeLastSlash(p) == SubSeq(p, 1, LastSlash(p) - 1)

\* the flag bit of each flag character; "g" has none
FlagBit(c) ==
    CASE c = "i" -> {"IGNORECASE"}
      [] c = "m" -> {"MULTILINE"}
      [] c = "s" -> {"DOTALL"}
      [] c = "u" -> {"UNICODE"}
      [] c \in {"v", "x"} -> {"VERBOSE"}
      [] c = "g" -> {}

FlagBits(segment) == UNION { FlagBit(segment[i]) : i \in DOMAIN segment }

Unparsed(p) == [pattern |-> p, flags |-> {}]

\* C16 as stated: when the segment after the last "/" consists solely of
\* characters of "igmsuvx" it is taken as flags and the pattern is the text
\* before that "/"; when it holds any other character, or there is no "/",
\* the whole string is the pattern and the flags are 0.  "g" sets no bit.
\* (A pattern ending in "/" is left out: its segment is empty.)
C16_FlagsParsedFromTrailingSegment ==
    ParseCall =>
      LET p == call.pattern IN
        IF ~HasSlash(p) THEN call.result = Unparsed(p)
        ELSE LET segment == AfterLastSlash(p) IN
               IF segment = <<>> THEN TRUE
               ELSE IF \A i \in DOMAIN segment : segment[i] \in FlagChars
                    THEN call.result = [pattern |-> BeforeLastSlash(p),
                                        flags |-> FlagBits(segment)]
                    ELSE call.result = Unparsed(p)

\* C16 as amended: the segment is taken as flags when the last "/" is not
\* the first character and the segment is non-empty and consists, letter
\* case ignored, solely of characters of "igmsuvx"; otherwise the whole
\* string is the pattern and the flags are 0.  "g" sets no bit.
C16_FlagsParsedAfterLeadingText ==
    ParseCall =>
      LET p == call.pattern IN
        IF ~HasSlash(p) THEN call.result = Unparsed(p)
        ELSE LET segment == LowerName(AfterLastSlash(p)) IN
               IF /\ LastSlash(p) > 1
                  /\ segment # <<>>
                  /\ \A i \in DOMAIN segment : segment[i] \in FlagChars
               THEN call.result = [pattern |-> BeforeLastSlash(p),
                                   flags |-> FlagBits(segment)]
               ELSE call.result = Unparsed(p)

\* flags in either letter case are parsed, and "g" adds nothing to "i"
C16_Witness ==
    /\ ParseCall
    /\ call.pattern = <<"A", "/", "I">>
    /\ call.result = [pattern |-> <<"A">>, flags |-> {"IGNORECASE"}]

\* C17: with the single rule "Foo" an issue is accepted iff its name
\* contains "Foo" in exactly this letter case; with the single rule "foo/i"
\* iff its name contains "foo" in any letter case.
C17_LiteralRules ==
    FilterCall =>
      /\ call.filter_patterns = <<PatFoo>> =>
           call.result = { issue \in call.issues :
                             Contains(issue[1], <<"F", "o", "o">>) }
      /\ call.filter_patterns = <<PatFooI>> =>
           call.result = { issue \in call.issues :
                             Contains(LowerName(issue[1]), <<"f", "o", "o">>) }

\* "Foo" does not accept the name "oFOO"
C17_Witness ==
    /\ FilterCall
    /\ call.filter_patterns = <<PatFoo>>
    /\ call.issues = {<<<<"o", "F", "O", "O">>, "PC">>}
    /\ call.result = {}

\* C18: filter add with a pattern that fails validation is rejected and
\* leaves the filter list as it was; so from an empty configuration, after
\* any sequence of addchannel, removechannel, filter add, filter remove and
\* filter clear, every stored rule of every destination is a valid pattern.
C18_StoredRulesValid ==
    \A g \in DOMAIN channels : \A i \in DOMAIN channels[g] :
        Range(channels[g][i].filters) \subseteq WellFormedRules

C18_RejectedAdd ==
    \A g \in DOMAIN GuildChannels : \A id \in GuildChannels[g] :
        \A pattern \in CommandPatterns \ WellFormedRules :
            filter_add(g, id, pattern)
            => channels' = channels /\ reply'.kind = "error"

C18_ValidationGate == []C18_StoredRulesValid /\ [][C18_RejectedAdd]_vars

\* an invalid pattern has just been refused for a guild whose destination
\* holds a rule
C18_Witness ==
    /\ reply = Reply("error", "invalid pattern")
    /\ \E i \in DOMAIN channels["g1"] : channels["g1"][i].filters # <<>>

\* C19: a request to set the interval or the cache age below 60 seconds is
\* rejected and changes neither the configuration nor the running loop or
\* fetcher; from the defaults, the interval the loop uses and the cache age
\* the fetcher uses are at least 60 in every reachable state.
C19_AtLeastMinimum ==
    /\ loop_seconds >= 60
    /\ cache_age >= 60
    /\ check_interval >= 60
    /\ config_cache_age >= 60

C19_Rejected ==
    \A seconds \in { x \in SecondsInputs : x < 60 } :
        (interval_command(seconds, TRUE) \/ cache_age_command(seconds, TRUE))
        => /\ UNCHANGED <<Config, InUse>>
           /\ reply' = Reply("error", "below minimum")

C19_BelowMinimumRejected == []C19_AtLeastMinimum /\ [][C19_Rejected]_vars

\* a value below the minimum has been refused while the loop sleeps on a
\* changed interval
C19_Witness ==
    /\ reply = Reply("error", "below minimum")
    /\ pc = "sleep"
    /\ loop_seconds = 60

\* initialize() has succeeded and the process has not stopped
AfterInitialize == pc \notin {"init", "load_failed", "stopped"}

SettingInProgress == cpc \in {"interval_set", "cacheage_set"}

\* a fetch_status() without force decides between cache and request by the
\* configured cache age
FetchComparesWithConfigured ==
    LET stale == now - cacheFile.ts >= config_cache_age IN
      /\ (TickStart /\ cacheFile.kind = "valid") => (pc' = "tick_net" <=> stale)
      /\ (BeforeLoop /\ cacheFile.kind = "valid") => (pc' = "before_net" <=> stale)
      /\ (CommandFetch(FALSE) /\ cacheFile.kind = "valid") => (cpc' = "net" <=> stale)

\* C20 as stated: an accepted interval command hands its value to the
\* running loop and an accepted cacheage command to the fetcher, which
\* compares against it from then on, and in every state after initialize
\* the values in use equal the configured ones.
C20_InUseFollowsConfiguration ==
    /\ [](AfterInitialize =>
            loop_seconds = check_interval /\ cache_age = config_cache_age)
    /\ [][ /\ change_interval => loop_seconds' = check_interval
           /\ set_cache_age => cache_age' = config_cache_age
           /\ ~SettingInProgress => FetchComparesWithConfigured ]_vars

\* C20 as amended: the same, the values in use equalling the configured
\* ones in every state after initialize in which no interval or cacheage
\* command stands between its configuration write and its hand-over.
C20_InUseFollowsConfigurationAfterCommand ==
    /\ []((AfterInitialize /\ ~SettingInProgress) =>
            loop_seconds = check_interval /\ cache_age = config_cache_age)
    /\ [][ /\ change_interval => loop_seconds' = check_interval
           /\ set_cache_age => cache_age' = config_cache_age
           /\ ~SettingInProgress => FetchComparesWithConfigured ]_vars

\* after `cacheage 600` a tick is served a record 300 seconds old
C20_Witness ==
    /\ pc = "notify"
    /\ tick.src = "cache"
    /\ now - cacheFile.ts = 300
    /\ cache_age = 600
    /\ config_cache_age = 600

\* C21: when the network request of fetch_status fails (non-200 response,
\* timeout, transport error, body that is not JSON) the call returns absent
\* without raising and leaves the cache file as it was; the stale cached
\* snapshot is not returned in its place.
C21_FailedRequestReturnsAbsent ==
    [][ \A o \in NetFailures :
          /\ fetch_with_session(o, upstream) = NoData
          /\ TickResponse(o, "ok")
             => /\ cacheFile' = cacheFile
                /\ pc' = "sleep" /\ lastTick' = "absent"
                /\ lastKnown' = lastKnown /\ sent' = {}
          /\ BeforeLoopResponse(o, "ok")
             => /\ cacheFile' = cacheFile
                /\ pc' = "sleep"
                /\ lastKnown' = lastKnown /\ seed' = seed
          /\ CommandResponse(o, "ok")
             => /\ cacheFile' = cacheFile
                /\ cpc' = "replying" ]_vars

\* a tick's request has failed while a stale record with issues other than
\* the last known ones lies in the cache file
C21_Witness ==
    /\ pc = "sleep"
    /\ lastTick = "absent"
    /\ Stale
    /\ get_games_with_issues(cacheFile.data) # lastKnown

\* a write of the cache that raised: mkdir or open, or json.dump
SaveFailures == {"open_error", "write_error"}

\* C22: a failure while writing the cache does not abort the fetch pipeline:
\* when the request succeeded and _save_cache fails, fetch_status returns the
\* fetched snapshot and raises nothing, and the tick that called it diffs,
\* notifies and updates lastKnown as it does after a successful write.
C22_SaveFailureDoesNotAbort ==
    /\ [][ \A s \in SaveFailures :
             LET current == get_games_with_issues(upstream) IN
               /\ TickResponse("ok", s)
                  => IF current # lastKnown
                     THEN /\ pc' = "notify"
                          /\ tick'.data = upstream
                          /\ tick'.new = current \ lastKnown
                          /\ tick'.resolved = lastKnown \ current
                     ELSE /\ pc' = "sleep" /\ lastTick' = "quiet"
                          /\ lastKnown' = current
               /\ BeforeLoopResponse("ok", s)
                  => pc' = "sleep" /\ lastKnown' = current
               /\ CommandResponse("ok", s) => cpc' = "replying" ]_vars
    /\ [][ (pc = "presence" /\ pc' = "sleep")
             => lastKnown' = get_games_with_issues(tick.data) ]_vars

\* a tick whose cache write failed has notified and taken the fetched
\* issues as last known
C22_Witness ==
    /\ pc = "sleep"
    /\ lastTick = "notified"
    /\ cacheFile = CacheTruncated
    /\ lastKnown # {}
    /\ lastKnown = get_games_with_issues(upstream)

RoundTripCall == call.fn = "cache_round_trip"

\* C23: after a successful _save_cache(snapshot) a _load_cache returns a
\* record whose data equals the snapshot, entry for entry, and a
\* fetch_status() without force made before the record is cache_age old
\* returns exactly that snapshot.
C23_CacheRoundTrip ==
    RoundTripCall =>
      /\ call.loaded.kind = "object"
      /\ call.loaded.data = call.data
      /\ fromisoformat(call.loaded._cache_timestamp) = call.saved_at
      /\ load_cache_text(call.text) = CacheRecord(call.saved_at.s, call.data)
      /\ call.delay < cache_age
           => call.fetched = [res |-> "hit", data |-> call.data]

\* a snapshot that lists the same status twice and one without a title,
\* written at a time with microseconds and read back one second before it
\* expires
C23_Witness ==
    /\ RoundTripCall
    /\ call.data = Payload(<<Entry(TitleA, "PS4"), Entry(TitleA, "PS4")>>)
    /\ call.saved_at.us # 0
    /\ call.delay = cache_age - 1
    /\ call.fetched.res = "hit"

DiffCall == call.fn = "diff"

\* C24: for all issue sets A and B the added set of diff(A, B) is the
\* removed set of diff(B, A) and the removed set of diff(A, B) the added set
\* of diff(B, A); added and removed of one diff are disjoint.
C24_DiffSymmetry ==
    DiffCall =>
      /\ call.ab.added = call.ba.removed
      /\ call.ab.removed = call.ba.added
      /\ call.ab.added \cap call.ab.removed = {}
      /\ call.ba.added \cap call.ba.removed = {}

\* two sets that share an issue and each hold one the other lacks
C24_Witness ==
    /\ DiffCall
    /\ call.a \cap call.b # {}
    /\ call.ab.added # {}
    /\ call.ab.removed # {}

NoDelta == [added |-> {}, removed |-> {}]

\* the tick that fetched `data` ended at once: nothing sent, presence and
\* lastKnown as they were
QuietStep ==
    /\ pc' = "sleep"
    /\ lastTick' = "quiet"
    /\ sent = {} /\ sent' = {}
    /\ presence' = presence
    /\ lastKnown' = lastKnown

\* C25: diff(A, A) has empty added and removed sets for every issue set A;
\* hence a tick whose fetched issue set equals lastKnown, from the network
\* or from the cache, sends no notification and leaves the presence
\* indicator alone.
C25_EqualSnapshotIsQuiet ==
    /\ [](/\ \A a \in SUBSET DiffIssues : Diff(a, a) = NoDelta
          /\ Diff(lastKnown, lastKnown) = NoDelta)
    /\ [][ /\ (/\ TickStart
               /\ Fresh
               /\ get_games_with_issues(cacheFile.data) = lastKnown)
              => QuietStep
           /\ \A s \in SaveOutcomes \ {"crash"} :
                (/\ TickResponse("ok", s)
                 /\ get_games_with_issues(upstream) = lastKnown)
                => QuietStep ]_vars

\* a tick has ended quietly on the record an earlier fetch wrote, while the
\* endpoint already serves other issues
C25_Witness ==
    /\ pc = "sleep"
    /\ lastTick = "quiet"
    /\ Fresh
    /\ lastKnown # {}
    /\ get_games_with_issues(cacheFile.data) = lastKnown
    /\ get_games_with_issues(upstream) # lastKnown
    /\ presence = 1

GamesCall == call.fn = "get_games_with_issues"

\* the entries of the payload's status list; none when there is no list
EntriesOf(data) ==
    IF "serverStatuses" \in DOMAIN data THEN Range(data.serverStatuses) ELSE {}

HasTitleAndPlatform(e) ==
    /\ "gameTitle" \in DOMAIN e /\ e.gameTitle # <<>>
    /\ "platform" \in DOMAIN e /\ e.platform # ""

\* C26: for every payload get_games_with_issues returns exactly the set of
\* (gameTitle, platform) pairs of the serverStatuses entries that have both
\* a non-empty gameTitle and a non-empty platform; other entries are dropped
\* without error, and a payload without serverStatuses gives the empty set.
C26_IssuesOfPayload ==
    GamesCall =>
      /\ ~call.raised
      /\ call.result = { <<e.gameTitle, e.platform>> :
                           e \in { x \in EntriesOf(call.data) : HasTitleAndPlatform(x) } }

ListGamesCall == call.fn = "list_games"

\* the names in the payload's current issues: the titles its status list
\* names, with or without a platform
IssueNames(data) ==
    { e.gameTitle :
        e \in { x \in EntriesOf(data) : "gameTitle" \in DOMAIN x /\ x.gameTitle # <<>> } }

\* the names in the payload's recently resolved data, when it has any
ResolvedNames(data) ==
    IF "recentlyResolved" \in DOMAIN data THEN data.recentlyResolved ELSE {}

\* C27: the service names listed for a payload are the names in its current
\* issues together with the names in its recently resolved data: a service
\* that appears only under recentlyResolved is listed.
C27_NamesIncludeRecentlyResolved ==
    ListGamesCall =>
      call.result = IssueNames(call.data) \cup ResolvedNames(call.data)

\* C28: cancelled is terminal: once cog_unload has cancelled the scheduler
\* no tick starts, and the scheduler makes no request, sends no
\* notification and does not change lastKnown, whatever happens afterwards.
C28_CancelledIsTerminal ==
    /\ [](pc = "cancelled" =>
            /\ ~ENABLED SchedulerStep
            /\ tick = NoTick
            /\ sent = {})
    /\ [][ pc = "cancelled" =>
             /\ pc' \in {"cancelled", "stopped"}
             /\ UNCHANGED <<lastKnown, sent, tick, presence, lastTick>> ]_vars

\* the scheduler was cancelled in the middle of a tick, the endpoint serves
\* issues other than the last known ones and time has gone on
C28_Witness ==
    /\ pc = "cancelled"
    /\ lastTick = "running"
    /\ get_games_with_issues(upstream) # lastKnown
    /\ now = MaxTime

\* C29: a tick with a non-empty diff sets the presence indicator to the
\* number of issues of its snapshot if and only if update_bot_status is
\* enabled; with the feature disabled, and on ticks with an empty diff or a
\* failed fetch, the scheduler never changes the presence indicator.  (A
\* change_presence that Discord refuses is left out of the statement.)
C29_PresenceFollowsFeature ==
    [][ /\ (InFanOut /\ pc' = "sleep" /\ ~UpdateBotStatus("error"))
           => presence' = IF update_bot_status THEN PresenceFor(tick.data)
                          ELSE presence
        /\ presence' # presence => (InFanOut /\ update_bot_status) ]_vars

\* the tick's request has failed: the step that ends such a tick
FailedFetchStep ==
    \E o \in NetOutcomes :
        /\ ~Truthy(fetch_with_session(o, upstream))
        /\ TickResponse(o, "ok")

\* a tick is waiting for its request, or the latest tick's request failed
\* and the loop sleeps
AwaitingRetry ==
    \/ pc = "tick_net"
    \/ pc = "sleep" /\ lastTick = "absent"

\* a fetch_status of a command has written the record it fetched
CommandWroteCache ==
    /\ cpc \in {"net", "net_forced"}
    /\ cpc' = "replying"
    /\ cacheFile' # cacheFile

\* a failed fetch is followed by no back-off: the loop sleeps on the same
\* interval, the cache file is as it was, the next tick can start
NoBackOff ==
    FailedFetchStep =>
      /\ pc' = "sleep" /\ lastTick' = "absent"
      /\ loop_seconds' = loop_seconds
      /\ cacheFile' = cacheFile

\* C30 as stated: after a tick whose fetch failed the next tick issues a
\* network request again, with no back-off and no change of interval.
C30_RetryOnNextTick ==
    /\ [](pc = "sleep" => ENABLED TickStart)
    /\ [][ /\ NoBackOff
           /\ (TickStart /\ lastTick = "absent") => pc' = "tick_net" ]_vars

\* C30 as amended: the same, unless a command has in the meantime written
\* a fresh cache record or raised the cache age above the age of the
\* existing record.  From the cache check of the failed tick on, the cache
\* has no fresh record until one of those two steps; without a fresh record
\* the next tick issues a request.
C30_RetryUnlessCacheRefreshed ==
    /\ [](pc = "sleep" => ENABLED TickStart)
    /\ [][ /\ NoBackOff
           /\ (TickStart /\ pc' = "tick_net") => ~Fresh
           /\ (AwaitingRetry /\ AwaitingRetry' /\ ~Fresh /\ Fresh')
                => (CommandWroteCache \/ set_cache_age)
           /\ (TickStart /\ lastTick = "absent" /\ ~Fresh) => pc' = "tick_net" ]_vars

\* a tick's request has failed on a stale record; the loop sleeps on an
\* interval of 60 seconds and the tick that can start now issues a request
C30_Witness ==
    /\ pc = "sleep"
    /\ lastTick = "absent"
    /\ Stale
    /\ loop_seconds = 60
    /\ ENABLED (TickStart /\ pc' = "tick_net")

----------------------------------------------------------------------------
\* C31: a successful network fetch is written to the cache before the caller
\* has the snapshot: in every step in which the tick, the seeding fetch or a
\* command receives a snapshot from the network and the write did not fail,
\* the cache file after the step holds a record with that snapshot, stamped
\* with the time of the write (the clock never runs backwards, so the stamp
\* is not older than the start of the call) and fresh for the next reader.

\* the scheduler or the command receives snapshot d from a request
ReceivedFromNetwork(d) ==
    \/ pc = "tick_net" /\ pc' = "notify" /\ tick'.src = "net" /\ tick'.data = d
    \/ pc = "tick_net" /\ pc' = "sleep" /\ lastTick' = "quiet"
    \/ pc = "before_net" /\ pc' = "sleep" /\ seed' = "done"
    \/ cpc \in {"net", "net_forced"} /\ cpc' = "replying"

WrittenBeforeReturn(d) ==
    /\ cacheFile'.kind = "valid"
    /\ cacheFile'.data = d
    /\ cacheFile'.ts = now'
    /\ now' - cacheFile'.ts < cache_age'

C31_SavedBeforeReturn ==
    [][\A o \in NetOutcomes :
         LET d == fetch_with_session(o, upstream) IN
           ( /\ Truthy(d)
             /\ ReceivedFromNetwork(d)
             /\ \/ TickResponse(o, "ok")
                \/ BeforeLoopResponse(o, "ok")
                \/ CommandResponse(o, "ok") )
           => WrittenBeforeReturn(d)]_vars

\* the tick has a snapshot from the network in hand that differs from what
\* the cache held before, and the cache file holds it with the time of the call
C31_Witness ==
    /\ pc = "notify"
    /\ tick.src = "net"
    /\ now = MaxTime
    /\ cacheFile = CacheRecord(now, tick.data)
    /\ Truthy(tick.data)

----------------------------------------------------------------------------
\* C32: at most one write of the cache file is in progress at any time,
\* although both the tick and the commands write it: the tick and a command
\* are never both inside _save_cache, and while one of them is inside it the
\* other takes no step (short of the process being stopped) and the file is
\* the one the writer emptied.

WriteInProgress == pc = "tick_saving" \/ cpc = "saving"

C32_OneWriterAtATime ==
    /\ [](~(pc = "tick_saving" /\ cpc = "saving"))
    /\ [](WriteInProgress => cacheFile = CacheTruncated)
    /\ [][/\ pc = "tick_saving" => cpc' \in {cpc, "stopped"}
          /\ cpc = "saving" => pc' \in {pc, "stopped"}]_vars

\* the command is inside _save_cache while the tick's own request, whose
\* response the tick will write as well, is in flight
C32_Witness == cpc = "saving" /\ pc = "tick_net"

----------------------------------------------------------------------------
\* C33: when the fetch of before_status_check_loop returns a snapshot,
\* lastKnown becomes the issue set of that snapshot, whatever initialize had
\* loaded from the cache file, and no message is sent; and the first tick, if
\* it follows while the cache record is still fresh, finds an empty diff: it
\* ends quietly, sends nothing and leaves lastKnown as seeded.

\* before_loop's fetch returns snapshot d, from the cache or from the network
SeedingStep(d) ==
    \/ /\ pc = "before"
       /\ pc' = "sleep"
       /\ CacheCheck(FALSE, cacheFile, cache_age, now) = [res |-> "hit", data |-> d]
    \/ /\ pc = "before_net"
       /\ pc' = "sleep"
       /\ d = upstream
       /\ \E s \in SaveOutcomes \ {"crash"} : BeforeLoopResponse("ok", s)

FirstTickAfterSeeding ==
    /\ pc = "sleep"
    /\ seed = "done"
    /\ lastTick = "none"
    /\ lastTick' # "none"

----------------------------------------------------------------------------
\* C34: the commands that fetch never touch lastKnown and never send a delta
\* notification, so what a manual fetch has written to the cache is still a
\* change for the scheduler: a tick that is served a cached snapshot whose
\* issue set differs from lastKnown enters the notify step with exactly that
\* difference.

\* a step of the command task (the process being stopped aside)
CommandStep == cpc' # cpc /\ cpc' # "stopped"

\* the scheduler is asleep and the fresh cache record differs from lastKnown
CachedChange ==
    /\ pc = "sleep"
    /\ Fresh
    /\ Truthy(cacheFile.data)
    /\ get_games_with_issues(cacheFile.data) # lastKnown

C34_CommandsLeaveDiffToScheduler ==
    /\ [][CommandStep
            => /\ lastKnown' = lastKnown
               /\ sent' = sent
               /\ tick' = tick
               /\ pc' = pc
               /\ lastTick' = lastTick]_vars
    /\ [][(CachedChange /\ TickStart)
            => /\ pc' = "notify"
               /\ tick'.src = "cache"
               /\ tick'.data = cacheFile.data
               /\ tick'.new = get_games_with_issues(cacheFile.data) \ lastKnown
               /\ tick'.resolved = lastKnown \ get_games_with_issues(cacheFile.data)
               /\ lastKnown' = lastKnown]_vars

\* the scheduler has not had a snapshot of its own yet; the record it is
\* served was written by a command's fetch, and the tick reports the change
C34_Witness ==
    /\ pc = "notify"
    /\ seed = "tick"
    /\ tick.src = "cache"
    /\ cacheFile = CacheRecord(MaxTime, tick.data)
    /\ tick.new # {}

----------------------------------------------------------------------------
\* C35: no duplicate notifications: while the upstream data does not change,
\* no destination is sent a second notification that names the same issue as
\* new, or the same issue as resolved, over any sequence of ticks, ticks in
\* which a send fails or the notify step raises included.
C35_NoDuplicateNotification == \A a \in delivered : ~a.again

----------------------------------------------------------------------------
\* C36: once removechannel has completed for a destination, no notification
\* is delivered to it afterwards, however the command interleaves with a
\* tick's fan-out: every message is delivered to a destination that is
\* registered at the moment of the delivery. (No destination is added in
\* SpecRemoval, so one that is not registered has been removed.)

RegisteredSomewhere(id) == \E g \in DOMAIN channels : Registered(g, id)

Deliveries == sent' \ sent

C36_NoDeliveryAfterRemoval ==
    [][\A m \in Deliveries : RegisteredSomewhere(m.dest)]_vars

\* C36, amended: no notification is delivered to a removed destination by a
\* fan-out that reads the guild's destination list after the removal: every
\* list the fan-out reads holds registered destinations only, and every
\* message goes to the destination at the head of the list read. A fan-out
\* that read the list before the removal still delivers to the destination.
ReadsList == pc = "notify" /\ ~tick.loaded /\ tick'.loaded

C36_NoDeliveryOnceRemovalIsRead ==
    [][/\ ReadsList
          => \A i \in DOMAIN tick'.queue :
               Registered(GuildOrder[tick'.g], tick'.queue[i].id)
       /\ \A m \in Deliveries :
            /\ tick.loaded
            /\ m.dest = Head(tick.queue).id
            /\ pc = "notify"]_vars

\* the fan-out is about to handle a destination that was removed after the
\* list was read
C36_Witness ==
    /\ pc = "notify"
    /\ tick.loaded
    /\ ~RegisteredSomewhere(Head(tick.queue).id)
    /\ Entitled(Head(tick.queue))

----------------------------------------------------------------------------
\* C37: no destination receives an empty notification. In a tick with a
\* non-empty delta, the pass over a destination that is there and can be
\* written to, with a send that works, sends a message if and only if the
\* destination's filtered added set or filtered removed set is non-empty;
\* the message carries exactly those two sets, and every message of the
\* tick names at least one issue and only issues of the tick's delta.

\* the pass over the head of the list, nothing in the way of the send
UnhinderedPass == NotifyChannel("ok", "ok")

C37_NoEmptyNotification ==
    /\ [](\A m \in sent :
            /\ m.added \cup m.removed # {}
            /\ m.added \subseteq tick.new
            /\ m.removed \subseteq tick.resolved)
    /\ [](InFanOut => tick.new \cup tick.resolved # {})
    /\ [][UnhinderedPass
            => LET channel == Head(tick.queue) IN
                 /\ Entitled(channel) <=> Deliveries # {}
                 /\ \A m \in Deliveries :
                      /\ m.dest = channel.id
                      /\ m.added = filter_issues_by_games(tick.new, channel.filters)
                      /\ m.removed = filter_issues_by_games(tick.resolved, channel.filters)]_vars

\* the fan-out is over: c1 has its message, c3, whose rules let nothing of
\* this delta through, was passed without one
C37_Witness ==
    /\ pc = "presence"
    /\ \E m \in sent : m.dest = "c1"
    /\ \E m \in sent : m.dest = "c4"
    /\ ~\E m \in sent : m.dest = "c3"
    /\ ~Entitled(Channel("c3", <<PatBad>>))

----------------------------------------------------------------------------
\* C38: eventual convergence. With the upstream issue set fixed at U, the
\* loop not cancelled, ticks firing again and again and requests succeeding
\* in the end, lastKnown eventually equals U and stays U; and whenever a
\* tick moves lastKnown, the working destination without filters has by
\* then been sent every issue of the difference, as new or as resolved.

TicksKeepFiring == []<>(pc = "sleep")

Announced(id, issue, as) ==
    \E a \in delivered : a.dest = id /\ a.issue = issue /\ a.as = as

C38_EventualConvergence ==
    /\ TicksKeepFiring => <>[](lastKnown = get_games_with_issues(upstream))
    /\ [][(InTick /\ lastKnown' # lastKnown)
            => /\ \A i \in lastKnown' \ lastKnown : Announced(WorkingDestination, i, "new")'
               /\ \A i \in lastKnown \ lastKnown' : Announced(WorkingDestination, i, "resolved")']_vars

----------------------------------------------------------------------------
\* C39: destination and filter bookkeeping. addchannel on a registered
\* destination changes nothing, its rules included; filter add changes the
\* configuration only for a registered destination and a pattern not yet in
\* its list, which it appends, so no list ever holds a pattern twice; filter
\* clear, and filter remove of the only rule, leave the destination
\* registered with an empty list; removechannel unregisters, and addchannel
\* of an unregistered destination registers it with an empty list.

RulesOf(g, id) == channels[g][IndexOf(g, id)].filters

NoRuleTwice(rules) ==
    \A j, k \in DOMAIN rules : rules[j] = rules[k] => j = k

C39_DestinationBookkeeping ==
    /\ [](\A g \in DOMAIN channels : \A i \in DOMAIN channels[g] :
            NoRuleTwice(channels[g][i].filters))
    /\ [][\A g \in DOMAIN GuildChannels : \A id \in GuildChannels[g] :
            /\ (Registered(g, id) /\ add_channel(g, id)) => channels' = channels
            /\ (~Registered(g, id) /\ add_channel(g, id))
                 => Registered(g, id)' /\ RulesOf(g, id)' = <<>>
            /\ remove_channel(g, id) => ~Registered(g, id)'
            /\ \A p \in CommandPatterns :
                 (filter_add(g, id, p) /\ channels' # channels)
                   => /\ Registered(g, id)
                      /\ p \notin Range(RulesOf(g, id))
                      /\ RulesOf(g, id)' = Append(RulesOf(g, id), p)
            /\ \A p \in CommandPatterns :
                 (~Registered(g, id) /\ filter_add(g, id, p)) => channels' = channels
            /\ (Registered(g, id) /\ filter_clear(g, id))
                 => Registered(g, id)' /\ RulesOf(g, id)' = <<>>
            /\ \A p \in CommandPatterns :
                 (Registered(g, id) /\ RulesOf(g, id) = <<p>> /\ filter_remove(g, id, p))
                   => Registered(g, id)' /\ RulesOf(g, id)' = <<>>]_vars

\* addchannel has just been answered with `already receiving` for the only
\* registered destination, which keeps its two rules
C39_Witness ==
    /\ reply = Reply("info", "already receiving")
    /\ Registered("g1", "c1")
    /\ ~Registered("g1", "c2")
    /\ ~Registered("g2", "c3")
    /\ Len(RulesOf("g1", "c1")) = 2

====
